---- MODULE Spec2Model ----
(***************************************************************************)
(* A model of the CHIP-8 interpreter of src/src/chip8.cpp (class CHIP8 of  *)
(* src/src/chip8.h) and of the event loop of src/src/main.cpp that drives  *)
(* it.  The machine state is the member data of CHIP8; one action models   *)
(* one call of CHIP8::emulate, CHIP8::key_press or CHIP8::key_release.     *)
(*                                                                         *)
(* Representation choices:                                                 *)
(*  - integers keep the width of their C++ type: uint8_t values are        *)
(*    reduced % 256 and uint16_t values % 65536 where the code stores      *)
(*    them; index expressions such as PC + 1 and I + y_sprite are          *)
(*    computed in int, as in C++, and are not reduced;                     *)
(*  - a pixel of m_pixels is 0 or 0xFFFFFFFF in the code (it is only ever  *)
(*    assigned 0 or XORed with 0xFFFFFFFF); the model holds TRUE for       *)
(*    0xFFFFFFFF and FALSE for 0;                                          *)
(*  - an uncaught std::out_of_range (vector::at, array::at) terminates     *)
(*    the process: the model records it in `fault` and no action is        *)
(*    enabled afterwards.  The other variables then hold the values the    *)
(*    members had when the exception was thrown;                           *)
(*  - the wall clock is not modelled: whether timer_clock has passed       *)
(*    T_60Hz at a call of emulate is an input of the call;                 *)
(*  - std::cerr is the sequence of <<opcode, address>> pairs written.      *)
(***************************************************************************)
EXTENDS Integers, Sequences, FiniteSets, TLC

(***************************************************************************)
(* Program constants.                                                      *)
(***************************************************************************)
mem_size == 4096
org == 512
width == 64
height == 32

\* Number of general purpose registers, call-stack slots and keys.
NumRegs == 16
StackSize == 16
KeymapSize == 16

Byte == 0..255
RegIdx == 0..(NumRegs - 1)

\* 8x5 font for each hexadecimal digit (1-based sequence of the 80 bytes).
font ==
  << 240, 144, 144, 144, 240,    32,  96,  32,  32, 112,
     240,  16, 240, 128, 240,   240,  16, 240,  16, 240,
     144, 144, 240,  16,  16,   240, 128, 240,  16, 240,
     240, 128, 240, 144, 240,   240,  16,  32,  64,  64,
     240, 144, 240, 144, 240,   240, 144, 240,  16, 240,
     240, 144, 240, 144, 144,   240, 144, 224, 144, 240,
     240, 128, 128, 128, 240,   224, 144, 144, 144, 224,
     240, 128, 240, 128, 240,   240, 128, 240, 128, 128 >>

\* Physical keys of the hexadecimal keypad, logical key i at position i + 1.
default_keymap ==
  << "X", "Num1", "Num2", "Num3", "Q", "W", "E", "A",
     "S", "D", "Z", "C", "Num4", "R", "F", "V" >>

(***************************************************************************)
(* Opcode field extraction (masks and shifts on a 16-bit value).           *)
(***************************************************************************)
type(opcode) == (opcode \div 4096) % 16
NNN(opcode) == opcode % 4096
NN(opcode) == opcode % 256
N(opcode) == opcode % 16
VX(opcode) == (opcode \div 256) % 16
VY(opcode) == (opcode \div 16) % 16

(***************************************************************************)
(* Bitwise operators on bytes (|, &, ^ of C++), bit by bit.                *)
(***************************************************************************)
RECURSIVE BitOr(_, _)
BitOr(a, b) ==
  IF a = 0 /\ b = 0 THEN 0
  ELSE 2 * BitOr(a \div 2, b \div 2) + (IF a % 2 = 1 \/ b % 2 = 1 THEN 1 ELSE 0)

RECURSIVE BitAnd(_, _)
BitAnd(a, b) ==
  IF a = 0 \/ b = 0 THEN 0
  ELSE 2 * BitAnd(a \div 2, b \div 2) + (IF a % 2 = 1 /\ b % 2 = 1 THEN 1 ELSE 0)

RECURSIVE BitXor(_, _)
BitXor(a, b) ==
  IF a = 0 /\ b = 0 THEN 0
  ELSE 2 * BitXor(a \div 2, b \div 2) + (IF a % 2 # b % 2 THEN 1 ELSE 0)

(***************************************************************************)
(* Machine state: the member data of CHIP8.                                *)
(*   m_keymap   the KeyState of each logical key (the .second of the pair; *)
(*              the .first is default_keymap and never changes)            *)
(*   m_pixels   the frame buffer, m_texture the copy that draw() presents  *)
(*   m_sound    the status of the sf::Sound                                *)
(*   cerr       what has been written to std::cerr                         *)
(*   fault      "none", or the exception that ended the process            *)
(***************************************************************************)
VARIABLES PC, SP, I, V, memory, stack, DT, ST, m_keymap, m_key_captured,
          m_pixels, m_texture, m_sound, cerr, fault

vars == << PC, SP, I, V, memory, stack, DT, ST, m_keymap, m_key_captured,
           m_pixels, m_texture, m_sound, cerr, fault >>

\* The machine as one record, on which the handlers of emulate() operate.
Machine ==
  [ PC |-> PC, SP |-> SP, I |-> I, V |-> V, memory |-> memory, stack |-> stack,
    DT |-> DT, ST |-> ST, m_keymap |-> m_keymap,
    m_key_captured |-> m_key_captured, m_pixels |-> m_pixels,
    m_texture |-> m_texture, m_sound |-> m_sound, cerr |-> cerr,
    fault |-> fault ]

\* std::out_of_range thrown by vector::at / array::at and never caught.
Throw(s) == [s EXCEPT !.fault = "out_of_range"]

(***************************************************************************)
(* emulate(): the 60 Hz update of the delay and sound timers.  `elapsed`   *)
(* is the outcome of timer_clock.getElapsedTime().asMilliseconds() >       *)
(* T_60Hz.                                                                 *)
(***************************************************************************)
\* The timer update without the tests for 0: a timer at 0 wraps to 255.
UpdateTimers_Wraps(s, elapsed) ==
  IF ~elapsed THEN s
  ELSE LET dt == (s.DT - 1) % 256
           st == (s.ST - 1) % 256
       IN  [s EXCEPT !.DT = dt, !.ST = st,
                     !.m_sound = IF st = 0 THEN "Stopped" ELSE @]

UpdateTimers(s, elapsed) ==
  IF ~elapsed THEN s
  ELSE LET dt == IF s.DT > 0 THEN s.DT - 1 ELSE s.DT
           st == IF s.ST > 0 THEN s.ST - 1 ELSE s.ST
       IN  [s EXCEPT !.DT = dt, !.ST = st,
                     !.m_sound = IF st = 0 THEN "Stopped" ELSE @]

(***************************************************************************)
(* emulate(): the handlers of the opcode decoder.  Each takes the machine  *)
(* after the fetch (PC already advanced by 2) and returns the machine      *)
(* after the handler.                                                      *)
(***************************************************************************)

\* 00E0  CLR: clear screen.
CLR(s) == [s EXCEPT !.m_pixels = [o \in DOMAIN s.m_pixels |-> FALSE]]

\* RET with the stack indexed modulo its size instead of bounds-checked.
RET_Wraps(s) ==
  LET sp == (s.SP - 1) % 256
  IN  [s EXCEPT !.SP = sp, !.PC = s.stack[sp % StackSize]]

\* RET that reads the slot before decrementing SP.
RET_StaleSlot(s) ==
  LET sp == (s.SP - 1) % 256
  IN  IF sp >= StackSize
      THEN Throw([s EXCEPT !.SP = sp])
      ELSE [s EXCEPT !.SP = sp, !.PC = s.stack[s.SP % StackSize]]

\* 00EE  RET: --SP on a uint8_t, then stack.at(SP).
RET(s) ==
  LET sp == (s.SP - 1) % 256
  IN  IF sp >= StackSize
      THEN Throw([s EXCEPT !.SP = sp])
      ELSE [s EXCEPT !.SP = sp, !.PC = s.stack[sp]]

\* Family 0 with the default label reporting, as the other families do.
SYS_Reports(s) == [s EXCEPT !.cerr = Append(@, << 0, s.PC - 2 >>)]

\* 0NNN  call RCA 1802 program: treated as NOP.
SYS(s) == s

\* JP that leaves a return address on the stack, as CALL does.
JP_Pushes(s, opcode) ==
  [s EXCEPT !.stack[s.SP % StackSize] = s.PC,
            !.SP = (s.SP + 1) % 256,
            !.PC = NNN(opcode)]

\* 1NNN  JP addr.
JP(s, opcode) == [s EXCEPT !.PC = NNN(opcode)]

\* CALL with the bound of the stack off by one: slot 16 wraps to slot 0.
CALL_OffByOne(s, opcode) ==
  IF s.SP > StackSize
  THEN Throw(s)
  ELSE [s EXCEPT !.stack[s.SP % StackSize] = s.PC,
                 !.SP = (s.SP + 1) % 256,
                 !.PC = NNN(opcode)]

\* 2NNN  CALL addr: stack.at(SP) = PC; ++SP; PC = NNN.
CALL(s, opcode) ==
  IF s.SP >= StackSize
  THEN Throw(s)
  ELSE [s EXCEPT !.stack[s.SP] = s.PC,
                 !.SP = (s.SP + 1) % 256,
                 !.PC = NNN(opcode)]

\* PC += 2 on a uint16_t.
Skip(s) == [s EXCEPT !.PC = (s.PC + 2) % 65536]

\* 3XNN  SE Vx, byte.
SE_Vx_byte(s, opcode) ==
  IF s.V[VX(opcode)] = NN(opcode) THEN Skip(s) ELSE s

\* SNE Vx, byte with the test of SE.
SNE_Vx_byte_AsSE(s, opcode) ==
  IF s.V[VX(opcode)] = NN(opcode) THEN [s EXCEPT !.PC = (s.PC + 2) % 65536]
  ELSE s

\* 4XNN  SNE Vx, byte.
SNE_Vx_byte(s, opcode) ==
  IF s.V[VX(opcode)] # NN(opcode) THEN Skip(s) ELSE s

\* 5XYN  SE Vx, Vy (the low nibble is not decoded).
SE_Vx_Vy(s, opcode) ==
  IF s.V[VX(opcode)] = s.V[VY(opcode)] THEN Skip(s) ELSE s

\* 6XNN  LD Vx, byte.
LD_Vx_byte(s, opcode) == [s EXCEPT !.V[VX(opcode)] = NN(opcode)]

\* ADD Vx, byte that reports the carry in VF, as 8XY4 does.
ADD_Vx_byte_Carry(s, opcode) ==
  [s EXCEPT !.V[15] = IF s.V[VX(opcode)] + NN(opcode) > 255 THEN 1 ELSE 0,
            !.V[VX(opcode)] = (s.V[VX(opcode)] + NN(opcode)) % 256]

\* 7XNN  ADD Vx, byte (uint8_t +=).
ADD_Vx_byte(s, opcode) ==
  [s EXCEPT !.V[VX(opcode)] = (@ + NN(opcode)) % 256]

\* 8XY0  LD Vx, Vy.
LD_Vx_Vy(s, opcode) == [s EXCEPT !.V[VX(opcode)] = s.V[VY(opcode)]]

\* 8XY1  OR Vx, Vy.
OR_Vx_Vy(s, opcode) ==
  [s EXCEPT !.V[VX(opcode)] = BitOr(@, s.V[VY(opcode)])]

\* 8XY2  AND Vx, Vy.
AND_Vx_Vy(s, opcode) ==
  [s EXCEPT !.V[VX(opcode)] = BitAnd(@, s.V[VY(opcode)])]

\* 8XY3  XOR Vx, Vy.
XOR_Vx_Vy(s, opcode) ==
  [s EXCEPT !.V[VX(opcode)] = BitXor(@, s.V[VY(opcode)])]

\* 8XY4  ADD Vx, Vy: temp = VX + VY; V[15] = carry; then V[X] = temp & 0xFF.
ADD_Vx_Vy(s, opcode) ==
  LET temp == s.V[VX(opcode)] + s.V[VY(opcode)]
      s1 == [s EXCEPT !.V[15] = IF temp > 255 THEN 1 ELSE 0]
  IN  [s1 EXCEPT !.V[VX(opcode)] = temp % 256]

\* 8XY5  SUB Vx, Vy: V[15] = not borrow; then V[X] -= V[Y], both read after
\* the write of V[15].
SUB_Vx_Vy(s, opcode) ==
  LET s1 == [s EXCEPT !.V[15] =
               IF s.V[VY(opcode)] > s.V[VX(opcode)] THEN 0 ELSE 1]
  IN  [s1 EXCEPT !.V[VX(opcode)] =
               (s1.V[VX(opcode)] - s1.V[VY(opcode)]) % 256]

\* 8XY6  SHR Vx: V[15] = LSb; then V[X] >>= 1.
SHR_Vx(s, opcode) ==
  LET s1 == [s EXCEPT !.V[15] = s.V[VX(opcode)] % 2]
  IN  [s1 EXCEPT !.V[VX(opcode)] = s1.V[VX(opcode)] \div 2]

\* 8XY7  SUBN Vx, Vy: V[15] = not borrow; then V[X] = V[Y] - V[X].
SUBN_Vx_Vy(s, opcode) ==
  LET s1 == [s EXCEPT !.V[15] =
               IF s.V[VX(opcode)] > s.V[VY(opcode)] THEN 0 ELSE 1]
  IN  [s1 EXCEPT !.V[VX(opcode)] =
               (s1.V[VY(opcode)] - s1.V[VX(opcode)]) % 256]

\* SHL that shifts VY into VX, as the COSMAC VIP interpreter did.
SHL_Vx_ShiftsVy(s, opcode) ==
  LET s1 == [s EXCEPT !.V[15] = s.V[VY(opcode)] \div 128]
  IN  [s1 EXCEPT !.V[VX(opcode)] = (s1.V[VY(opcode)] * 2) % 256]

\* 8XYE  SHL Vx: V[15] = MSb; then V[X] <<= 1.
SHL_Vx(s, opcode) ==
  LET s1 == [s EXCEPT !.V[15] = s.V[VX(opcode)] \div 128]
  IN  [s1 EXCEPT !.V[VX(opcode)] = (s1.V[VX(opcode)] * 2) % 256]

\* The report with the address after the opcode instead of the opcode's.
IllegalOpcode_NextAddr(s, opcode) ==
  [s EXCEPT !.cerr = Append(@, << opcode, s.PC >>)]

\* default: "Illegal opcode 0x<opcode> at address 0x<PC - 2>" on std::cerr.
IllegalOpcode(s, opcode) ==
  [s EXCEPT !.cerr = Append(@, << opcode, s.PC - 2 >>)]

\* 9XYN  SNE Vx, Vy (the low nibble is not decoded).
SNE_Vx_Vy(s, opcode) ==
  IF s.V[VX(opcode)] # s.V[VY(opcode)] THEN Skip(s) ELSE s

\* ANNN  LD I, addr.
LD_I_addr(s, opcode) == [s EXCEPT !.I = NNN(opcode)]

\* BNNN  JP V0: PC = V[0] + NNN.
JP_V0(s, opcode) == [s EXCEPT !.PC = (s.V[0] + NNN(opcode)) % 65536]

\* CXNN  RND Vx, byte: r is the value of std::rand() % 256.
RND_Vx_byte(s, opcode, r) ==
  [s EXCEPT !.V[VX(opcode)] = BitAnd(r, NN(opcode))]

\* The sprite loops with a pixel set by each sprite bit instead of XORed.
RECURSIVE DrawLoop_Sets(_, _, _)
DrawLoop_Sets(s, opcode, k) ==
  IF k >= 8 * N(opcode) THEN s
  ELSE LET y_sprite == k \div 8
           x_sprite == k % 8
           addr == s.I + y_sprite
       IN  IF addr >= mem_size THEN Throw(s)
           ELSE IF (s.memory[addr] \div (2 ^ (7 - x_sprite))) % 2 = 1
                THEN LET x == (s.V[VX(opcode)] + x_sprite) % width
                         y == (s.V[VY(opcode)] + y_sprite) % height
                         offset == x + (width * y)
                         s1 == IF s.m_pixels[offset]
                               THEN [s EXCEPT !.V[15] = 1] ELSE s
                     IN  DrawLoop_Sets([s1 EXCEPT !.m_pixels[offset] = TRUE],
                                       opcode, k + 1)
                ELSE DrawLoop_Sets(s, opcode, k + 1)

\* DXYN  DRW Vx, Vy, nibble: iteration k of the two nested loops, row
\* y_sprite = k \div 8 and column x_sprite = k % 8.  V[15], V[X] and V[Y] are
\* read from the machine as it is at that iteration.
RECURSIVE DrawLoop(_, _, _)
DrawLoop(s, opcode, k) ==
  IF k >= 8 * N(opcode) THEN s
  ELSE LET y_sprite == k \div 8
           x_sprite == k % 8
           addr == s.I + y_sprite
       IN  IF addr >= mem_size THEN Throw(s)
           ELSE IF (s.memory[addr] \div (2 ^ (7 - x_sprite))) % 2 = 1
                THEN LET x == (s.V[VX(opcode)] + x_sprite) % width
                         y == (s.V[VY(opcode)] + y_sprite) % height
                         offset == x + (width * y)
                         s1 == IF s.m_pixels[offset]
                               THEN [s EXCEPT !.V[15] = 1] ELSE s
                     IN  DrawLoop([s1 EXCEPT !.m_pixels[offset] = ~@],
                                  opcode, k + 1)
                ELSE DrawLoop(s, opcode, k + 1)

\* DRW without the reset of V[15] before the loops.
DRW_KeepsFlag(s, opcode) ==
  LET s1 == DrawLoop(s, opcode, 0)
  IN  IF s1.fault # "none" THEN s1
      ELSE [s1 EXCEPT !.m_texture = s1.m_pixels]

\* V[15] = 0; the loops; then m_texture.update(m_pixels).
DRW(s, opcode) ==
  LET s1 == DrawLoop([s EXCEPT !.V[15] = 0], opcode, 0)
  IN  IF s1.fault # "none" THEN s1
      ELSE [s1 EXCEPT !.m_texture = s1.m_pixels]

\* SKP Vx with the key index masked to 4 bits instead of bounds-checked.
SKP_Vx_Masked(s, opcode) ==
  IF s.m_keymap[s.V[VX(opcode)] % KeymapSize] = "Pressed"
  THEN [s EXCEPT !.PC = (s.PC + 2) % 65536]
  ELSE s

\* EX9E  SKP Vx: m_keymap.at(V[X]).
SKP_Vx(s, opcode) ==
  IF s.V[VX(opcode)] >= KeymapSize THEN Throw(s)
  ELSE IF s.m_keymap[s.V[VX(opcode)]] = "Pressed" THEN Skip(s) ELSE s

\* EXA1  SKNP Vx: m_keymap.at(V[X]).
SKNP_Vx(s, opcode) ==
  IF s.V[VX(opcode)] >= KeymapSize THEN Throw(s)
  ELSE IF s.m_keymap[s.V[VX(opcode)]] # "Pressed" THEN Skip(s) ELSE s

\* FX07  LD Vx, DT.
LD_Vx_DT(s, opcode) == [s EXCEPT !.V[VX(opcode)] = s.DT]

\* std::find_if over m_keymap for a pressed key: the index of the first one,
\* KeymapSize (the end iterator) when there is none.
FindPressed(keymap) ==
  IF \E i \in DOMAIN keymap : keymap[i] = "Pressed"
  THEN CHOOSE i \in DOMAIN keymap :
         /\ keymap[i] = "Pressed"
         /\ \A j \in DOMAIN keymap : j < i => keymap[j] # "Pressed"
  ELSE KeymapSize

\* Variants of LD_Vx_K with one slip each, used to show that the FX0A
\* properties depend on the handler.
\* - PC is rewound only when a key was found.
LD_Vx_K_NoStall(s, opcode) ==
  IF ~s.m_key_captured
  THEN LET key_it == FindPressed(s.m_keymap)
       IN  IF key_it # KeymapSize
           THEN [s EXCEPT !.V[VX(opcode)] = key_it,
                          !.m_key_captured = TRUE,
                          !.PC = (s.PC - 2) % 65536]
           ELSE s
  ELSE IF s.V[VX(opcode)] >= KeymapSize THEN Throw(s)
       ELSE IF s.m_keymap[s.V[VX(opcode)]] = "Released"
            THEN [s EXCEPT !.m_key_captured = FALSE]
            ELSE [s EXCEPT !.PC = (s.PC - 2) % 65536]

\* - the release of the captured key is not waited for.
LD_Vx_K_NoReleaseWait(s, opcode) ==
  IF ~s.m_key_captured
  THEN LET key_it == FindPressed(s.m_keymap)
           s1 == IF key_it # KeymapSize
                 THEN [s EXCEPT !.V[VX(opcode)] = key_it,
                                !.m_key_captured = TRUE]
                 ELSE s
       IN  [s1 EXCEPT !.PC = (s1.PC - 2) % 65536]
  ELSE [s EXCEPT !.m_key_captured = FALSE]

\* - the flag is tested for the wrong state, so a release never resumes.
LD_Vx_K_NeverResumes(s, opcode) ==
  IF ~s.m_key_captured
  THEN LET key_it == FindPressed(s.m_keymap)
           s1 == IF key_it # KeymapSize
                 THEN [s EXCEPT !.V[VX(opcode)] = key_it,
                                !.m_key_captured = TRUE]
                 ELSE s
       IN  [s1 EXCEPT !.PC = (s1.PC - 2) % 65536]
  ELSE [s EXCEPT !.PC = (s.PC - 2) % 65536]

\* - PC is not rewound by the call that captures a key.
LD_Vx_K_CaptureAdvances(s, opcode) ==
  IF ~s.m_key_captured
  THEN LET key_it == FindPressed(s.m_keymap)
       IN  IF key_it # KeymapSize
           THEN [s EXCEPT !.V[VX(opcode)] = key_it,
                          !.m_key_captured = TRUE]
           ELSE [s EXCEPT !.PC = (s.PC - 2) % 65536]
  ELSE IF s.V[VX(opcode)] >= KeymapSize THEN Throw(s)
       ELSE IF s.m_keymap[s.V[VX(opcode)]] = "Released"
            THEN [s EXCEPT !.m_key_captured = FALSE]
            ELSE [s EXCEPT !.PC = (s.PC - 2) % 65536]

\* - the keymap is searched from its end: the highest pressed key is taken.
LD_Vx_K_HighestKey(s, opcode) ==
  IF ~s.m_key_captured
  THEN LET pressed == {i \in DOMAIN s.m_keymap : s.m_keymap[i] = "Pressed"}
           s1 == IF pressed # {}
                 THEN [s EXCEPT !.V[VX(opcode)] =
                                  CHOOSE i \in pressed :
                                    \A j \in pressed : j <= i,
                                !.m_key_captured = TRUE]
                 ELSE s
       IN  [s1 EXCEPT !.PC = (s1.PC - 2) % 65536]
  ELSE IF s.V[VX(opcode)] >= KeymapSize THEN Throw(s)
       ELSE IF s.m_keymap[s.V[VX(opcode)]] = "Released"
            THEN [s EXCEPT !.m_key_captured = FALSE]
            ELSE [s EXCEPT !.PC = (s.PC - 2) % 65536]

\* FX0A  LD Vx, K.
LD_Vx_K(s, opcode) ==
  IF ~s.m_key_captured
  THEN LET key_it == FindPressed(s.m_keymap)
           s1 == IF key_it # KeymapSize
                 THEN [s EXCEPT !.V[VX(opcode)] = key_it,
                                !.m_key_captured = TRUE]
                 ELSE s
       IN  [s1 EXCEPT !.PC = (s1.PC - 2) % 65536]
  ELSE IF s.V[VX(opcode)] >= KeymapSize THEN Throw(s)
       ELSE IF s.m_keymap[s.V[VX(opcode)]] = "Released"
            THEN [s EXCEPT !.m_key_captured = FALSE]
            ELSE [s EXCEPT !.PC = (s.PC - 2) % 65536]

\* FX15  LD DT, Vx.
LD_DT_Vx(s, opcode) == [s EXCEPT !.DT = s.V[VX(opcode)]]

\* LD ST, Vx that loads the timer and leaves the sound alone.
LD_ST_Vx_Silent(s, opcode) == [s EXCEPT !.ST = s.V[VX(opcode)]]

\* FX18  LD ST, Vx: ST = VX; if(ST) m_sound.play().
LD_ST_Vx(s, opcode) ==
  [s EXCEPT !.ST = s.V[VX(opcode)],
            !.m_sound = IF s.V[VX(opcode)] # 0 THEN "Playing" ELSE @]

\* ADD I, Vx with I kept to 12 bits and VF left alone.
ADD_I_Vx_Masked(s, opcode) ==
  [s EXCEPT !.I = (s.I + s.V[VX(opcode)]) % mem_size]

\* FX1E  ADD I, Vx: I += VX on a uint16_t; V[15] = (I > 0x0FFF).
ADD_I_Vx(s, opcode) ==
  LET i == (s.I + s.V[VX(opcode)]) % 65536
  IN  [s EXCEPT !.I = i, !.V[15] = IF i > 4095 THEN 1 ELSE 0]

\* LD F, Vx for glyphs of 4 rows.
LD_F_Vx_Stride4(s, opcode) == [s EXCEPT !.I = s.V[VX(opcode)] * 4]

\* FX29  LD F, Vx.
LD_F_Vx(s, opcode) == [s EXCEPT !.I = s.V[VX(opcode)] * 5]

\* LD B, Vx with operator[] on an index reduced to the memory size.
LD_B_Vx_Wraps(s, opcode) ==
  LET vx == s.V[VX(opcode)]
  IN  [s EXCEPT !.memory[s.I % mem_size] = vx \div 100,
                !.memory[(s.I + 1) % mem_size] = (vx \div 10) % 10,
                !.memory[(s.I + 2) % mem_size] = vx % 10]

\* LD B, Vx with the least significant digit first.
LD_B_Vx_UnitsFirst(s, opcode) ==
  LET vx == s.V[VX(opcode)]
  IN  IF s.I + 2 >= mem_size THEN Throw(s)
      ELSE [s EXCEPT !.memory[s.I] = vx % 10,
                     !.memory[s.I + 1] = (vx \div 10) % 10,
                     !.memory[s.I + 2] = vx \div 100]

\* FX33  LD B, Vx: three memory.at() writes in turn.
LD_B_Vx(s, opcode) ==
  LET vx == s.V[VX(opcode)]
  IN  IF s.I >= mem_size THEN Throw(s)
      ELSE LET s1 == [s EXCEPT !.memory[s.I] = vx \div 100]
           IN  IF s.I + 1 >= mem_size THEN Throw(s1)
               ELSE LET s2 == [s1 EXCEPT !.memory[s.I + 1] = (vx \div 10) % 10]
                    IN  IF s.I + 2 >= mem_size THEN Throw(s2)
                        ELSE [s2 EXCEPT !.memory[s.I + 2] = vx % 10]

\* FX55  LD [I], Vx: iteration i of for(i = 0; i <= X; ++i).
RECURSIVE StoreLoop(_, _, _)
StoreLoop(s, opcode, i) ==
  IF i > VX(opcode) THEN s
  ELSE IF s.I >= mem_size THEN Throw(s)
       ELSE StoreLoop([s EXCEPT !.memory[s.I] = s.V[i],
                                !.I = (s.I + 1) % 65536],
                      opcode, i + 1)

\* LD [I], Vx that leaves I where it was.
LD_I_Vx_KeepsI(s, opcode) ==
  LET n == StoreLoop(s, opcode, 0)
  IN  IF n.fault # "none" THEN n ELSE [n EXCEPT !.I = s.I]

LD_I_Vx(s, opcode) == StoreLoop(s, opcode, 0)

\* FX65  LD Vx, [I]: iteration i of for(i = 0; i <= X; ++i).
RECURSIVE LoadLoop(_, _, _)
LoadLoop(s, opcode, i) ==
  IF i > VX(opcode) THEN s
  ELSE IF s.I >= mem_size THEN Throw(s)
       ELSE LoadLoop([s EXCEPT !.V[i] = s.memory[s.I],
                               !.I = (s.I + 1) % 65536],
                     opcode, i + 1)

\* LD Vx, [I] with the loop body of LD [I], Vx.
LD_Vx_I_Stores(s, opcode) == StoreLoop(s, opcode, 0)

LD_Vx_I(s, opcode) == LoadLoop(s, opcode, 0)

(***************************************************************************)
(* emulate(): the opcode decoder, switch(type(opcode)) and the inner       *)
(* switches on NNN (family 0), N (family 8) and NN (families E and F).     *)
(***************************************************************************)
Decode0(s, opcode) ==
  CASE NNN(opcode) = 224 -> CLR(s)
    [] NNN(opcode) = 238 -> RET(s)
    [] OTHER -> SYS(s)

Decode8(s, opcode) ==
  CASE N(opcode) = 0 -> LD_Vx_Vy(s, opcode)
    [] N(opcode) = 1 -> OR_Vx_Vy(s, opcode)
    [] N(opcode) = 2 -> AND_Vx_Vy(s, opcode)
    [] N(opcode) = 3 -> XOR_Vx_Vy(s, opcode)
    [] N(opcode) = 4 -> ADD_Vx_Vy(s, opcode)
    [] N(opcode) = 5 -> SUB_Vx_Vy(s, opcode)
    [] N(opcode) = 6 -> SHR_Vx(s, opcode)
    [] N(opcode) = 7 -> SUBN_Vx_Vy(s, opcode)
    [] N(opcode) = 14 -> SHL_Vx(s, opcode)
    [] OTHER -> IllegalOpcode(s, opcode)

DecodeE(s, opcode) ==
  CASE NN(opcode) = 158 -> SKP_Vx(s, opcode)
    [] NN(opcode) = 161 -> SKNP_Vx(s, opcode)
    [] OTHER -> IllegalOpcode(s, opcode)

DecodeF(s, opcode) ==
  CASE NN(opcode) = 7 -> LD_Vx_DT(s, opcode)
    [] NN(opcode) = 10 -> LD_Vx_K(s, opcode)
    [] NN(opcode) = 21 -> LD_DT_Vx(s, opcode)
    [] NN(opcode) = 24 -> LD_ST_Vx(s, opcode)
    [] NN(opcode) = 30 -> ADD_I_Vx(s, opcode)
    [] NN(opcode) = 41 -> LD_F_Vx(s, opcode)
    [] NN(opcode) = 51 -> LD_B_Vx(s, opcode)
    [] NN(opcode) = 85 -> LD_I_Vx(s, opcode)
    [] NN(opcode) = 101 -> LD_Vx_I(s, opcode)
    [] OTHER -> IllegalOpcode(s, opcode)

Decode(s, opcode, r) ==
  CASE type(opcode) = 0 -> Decode0(s, opcode)
    [] type(opcode) = 1 -> JP(s, opcode)
    [] type(opcode) = 2 -> CALL(s, opcode)
    [] type(opcode) = 3 -> SE_Vx_byte(s, opcode)
    [] type(opcode) = 4 -> SNE_Vx_byte(s, opcode)
    [] type(opcode) = 5 -> SE_Vx_Vy(s, opcode)
    [] type(opcode) = 6 -> LD_Vx_byte(s, opcode)
    [] type(opcode) = 7 -> ADD_Vx_byte(s, opcode)
    [] type(opcode) = 8 -> Decode8(s, opcode)
    [] type(opcode) = 9 -> SNE_Vx_Vy(s, opcode)
    [] type(opcode) = 10 -> LD_I_addr(s, opcode)
    [] type(opcode) = 11 -> JP_V0(s, opcode)
    [] type(opcode) = 12 -> RND_Vx_byte(s, opcode, r)
    [] type(opcode) = 13 -> DRW(s, opcode)
    [] type(opcode) = 14 -> DecodeE(s, opcode)
    [] type(opcode) = 15 -> DecodeF(s, opcode)
    [] OTHER -> IllegalOpcode(s, opcode)

(***************************************************************************)
(* emulate(): the fetch.  memory.at(PC) and memory.at(PC + 1) throw when   *)
(* the index is not below mem_size; PC + 1 is computed in int.             *)
(***************************************************************************)
FetchFaults(s) == s.PC >= mem_size \/ s.PC + 1 >= mem_size

Fetch(s) == (s.memory[s.PC] * 256) + s.memory[s.PC + 1]

\* emulate() that leaves the timers alone while the program waits at FX0A.
emulate_FrozenStall(s, elapsed, r) ==
  LET waits == /\ ~FetchFaults(s)
               /\ type(Fetch(s)) = 15
               /\ NN(Fetch(s)) = 10
      s1 == IF waits THEN s ELSE UpdateTimers(s, elapsed)
  IN  IF FetchFaults(s1) THEN Throw(s1)
      ELSE Decode([s1 EXCEPT !.PC = (s1.PC + 2) % 65536], Fetch(s1), r)

\* One call of emulate(): timers, fetch, PC += 2, decode.
emulate(s, elapsed, r) ==
  LET s1 == UpdateTimers(s, elapsed)
  IN  IF FetchFaults(s1) THEN Throw(s1)
      ELSE Decode([s1 EXCEPT !.PC = (s1.PC + 2) % 65536], Fetch(s1), r)

(***************************************************************************)
(* emulate(): the calls it makes on m_sound, the audio output.  stop() is  *)
(* called by the timer update when ST is 0 after the decrement, play() by  *)
(* FX18 when the value loaded into ST is not 0.                            *)
(***************************************************************************)
m_sound_stop(s, elapsed) == elapsed /\ UpdateTimers(s, elapsed).ST = 0

m_sound_play(s, elapsed) ==
  LET s1 == UpdateTimers(s, elapsed)
  IN  /\ ~FetchFaults(s1)
      /\ type(Fetch(s1)) = 15
      /\ NN(Fetch(s1)) = 24
      /\ s1.V[VX(Fetch(s1))] # 0

(***************************************************************************)
(* key_press / key_release: std::find_if for the physical key in the first *)
(* components of m_keymap, then the update of the state at that index.     *)
(***************************************************************************)
FindKey(key) ==
  IF \E i \in 1..Len(default_keymap) : default_keymap[i] = key
  THEN (CHOOSE i \in 1..Len(default_keymap) :
          /\ default_keymap[i] = key
          /\ \A j \in 1..(i - 1) : default_keymap[j] # key) - 1
  ELSE KeymapSize

key_press(keymap, key) ==
  IF FindKey(key) # KeymapSize
  THEN [keymap EXCEPT ![FindKey(key)] = "Pressed"]
  ELSE keymap

\* key_release that releases every key.
key_release_All(keymap, key) ==
  IF FindKey(key) # KeymapSize
  THEN [i \in DOMAIN keymap |-> "Released"]
  ELSE keymap

key_release(keymap, key) ==
  IF FindKey(key) # KeymapSize
  THEN [keymap EXCEPT ![FindKey(key)] = "Released"]
  ELSE keymap

(***************************************************************************)
(* Bounds of the model.                                                    *)
(***************************************************************************)
\* The input side presses and releases the first NumKeys keys of the keypad
\* (and one key that is not in the keymap).
NumKeys == 2
\* std::rand() % 256 yields one of the ByteEdge + 1 lowest or highest bytes.
ByteEdge == 1
\* Register operands of the generated programs: V0..V(RegEdge) and VF.
RegEdge == 1
\* Deepest chain of nested subroutine calls among the generated programs.
MaxDepth == 17

RandBytes == (0..ByteEdge) \cup ((255 - ByteEdge)..255)
RegSamples == (0..RegEdge) \cup {15}
PhysKeys == {default_keymap[i] : i \in 1..NumKeys} \cup {"Escape"}

(***************************************************************************)
(* Program images: the byte vector handed to the constructor.  A program   *)
(* is given as a sequence of 16-bit opcodes, stored big-endian.            *)
(***************************************************************************)
Op(t, x, y, n) == (t * 4096) + (x * 256) + (y * 16) + n
OpNN(t, x, nn) == (t * 4096) + (x * 256) + nn
OpNNN(t, nnn) == (t * 4096) + nnn

Asm(words) ==
  [i \in 1..(2 * Len(words)) |->
     IF i % 2 = 1 THEN words[(i + 1) \div 2] \div 256
     ELSE words[i \div 2] % 256]

\* JP to the address the instruction itself is loaded at: the program's end.
Halt(index) == OpNNN(1, org + (2 * index))

\* 6002 F015 FX0A: DT = 2, then wait for a key into VX.
KeyWaitAddr == org + 4
KeyWaitProg(x) ==
  Asm(<< OpNN(6, 0, 2), OpNN(15, 0, 21), OpNN(15, x, 10), Halt(3) >>)
KeyWaitProgs == {KeyWaitProg(x) : x \in RegIdx}

\* C101 C201 then 5 1 2 N or 9 1 2 N with a non-zero low nibble.
SkipNibbleProgs ==
  {Asm(<< OpNN(12, 1, 1), OpNN(12, 2, 1), Op(t, 1, 2, n), Halt(3), Halt(4) >>) :
     t \in {5, 9}, n \in {1, 3, 15}}

\* Opcodes of families 8, E and F that no case label matches: every unused
\* low nibble of family 8, and the low bytes next to a used one, 00 and FF.
LegalNN_E == {158, 161}
LegalNN_F == {7, 10, 21, 24, 30, 41, 51, 85, 101}
NearNN(legal) ==
  {nn \in Byte \ legal : nn \in {0, 255} \/ nn + 1 \in legal \/ nn - 1 \in legal}
IllegalOpcodes ==
  {Op(8, 1, 2, n) : n \in (8..13) \cup {15}}
  \cup {OpNN(14, 1, nn) : nn \in NearNN(LegalNN_E)}
  \cup {OpNN(15, 1, nn) : nn \in NearNN(LegalNN_F)}
IllegalProgs == {Asm(<< w, OpNN(6, 0, 42), Halt(2) >>) : w \in IllegalOpcodes}

\* A chain of n nested calls: routine i at org + 4 * i is CALL routine i + 1
\* then RET, the last routine is RET alone.  The first call is at org and is
\* followed by `last`: a halt, or one RET more than there were calls.
Routine(i) == org + (4 * i)
CallChain(n, last) ==
  IF n = 0 THEN Asm(<< last, Halt(1) >>)
  ELSE Asm([k \in 1..((2 * n) + 1) |->
              IF k = 1 THEN OpNNN(2, Routine(1))
              ELSE IF k = 2 THEN last
              ELSE IF k % 2 = 0 THEN 238
              ELSE IF k = (2 * n) + 1 THEN 238
              ELSE OpNNN(2, Routine(((k - 1) \div 2) + 1))])
CallProgs ==
  {CallChain(n, Halt(1)) : n \in 1..MaxDepth}
  \cup {CallChain(n, 238) : n \in {0, 1, StackSize}}

\* Programs whose fetch or whose access through I reaches the end of memory.
EdgeAddrs == (mem_size - 4)..(mem_size - 1)
MemEdgeProgs ==
  {Asm(<< OpNNN(1, a) >>) : a \in EdgeAddrs}
  \cup {Asm(<< OpNN(6, 0, 255), OpNNN(11, a) >>) : a \in EdgeAddrs}
  \cup {Asm(<< OpNN(6, 0, 123), OpNN(6, 1, 45), OpNN(6, 2, 67), OpNNN(10, a),
               OpNN(15, x, nn), Halt(5) >>) :
          a \in EdgeAddrs, x \in {0, 2}, nn \in {51, 85, 101}}
  \cup {Asm(<< OpNNN(10, a), Op(13, 0, 0, n), Halt(2) >>) :
          a \in EdgeAddrs, n \in 0..2}
  \cup {Asm(<< OpNN(6, 0, 255), OpNNN(10, a), OpNN(15, 0, 30),
               OpNN(15, 0, nn), Halt(4) >>) :
          a \in {mem_size - 256, mem_size - 1}, nn \in {51, 85, 101}}

\* CXFF CYFF 8XY4: two random registers, then their sum.
AddProgs ==
  {Asm(<< OpNN(12, x, 255), OpNN(12, y, 255), Op(8, x, y, 4), Halt(3) >>) :
     x \in RegSamples, y \in RegSamples}

\* 6XAA 6YBB 8XYn: two loaded registers, then SUB, SHR, SUBN or SHL on them.
\* The operand pairs give a borrow, no borrow, equal operands, both values
\* of the lowest and of the highest bit, and the extremes.
OperandPairs ==
  {<< 1, 2 >>, << 2, 1 >>, << 3, 129 >>, << 129, 3 >>, << 0, 255 >>,
   << 255, 255 >>}
ArithOps == {5, 6, 7, 14}
ArithProgs ==
  {Asm(<< OpNN(6, RegEdge, ab[1]), OpNN(6, y, ab[2]), Op(8, RegEdge, y, n),
          Halt(3) >>) :
     y \in RegSamples, ab \in OperandPairs, n \in ArithOps}

\* 6XAA 6YBB DXYN DXYN DXYN 6X(AA+2) DXYN: the sprite at I = 0 (the font's
\* glyph 0) drawn three times at (AA, BB), then once two columns to the right,
\* over the copy that is left.  The coordinates are inside the screen, or at
\* its right and bottom edge in registers that hold more than 63.
DrawRegs == {<< RegEdge, 0 >>, << 15, 0 >>, << 0, 15 >>}
DrawCoords == {<< 1, 2 >>, << 253, 255 >>}
DrawRows == {0, 1, 5}
DrawAddr == org + 4
DrawProgs ==
  {Asm(<< OpNN(6, xy[1], ab[1]), OpNN(6, xy[2], ab[2]),
          Op(13, xy[1], xy[2], n), Op(13, xy[1], xy[2], n),
          Op(13, xy[1], xy[2], n), OpNN(6, xy[1], (ab[1] + 2) % 256),
          Op(13, xy[1], xy[2], n), Halt(7) >>) :
     xy \in DrawRegs, ab \in DrawCoords, n \in DrawRows}

\* 60VV F018 F015 F10A: ST = DT = VV, then wait for a key into V1; and
\* 6002 F018 6000 F018: the sound timer set to 0 while the tone is on.
SoundLoads == 0..(ByteEdge + 1)
SoundProg(v) ==
  Asm(<< OpNN(6, 0, v), OpNN(15, 0, 24), OpNN(15, 0, 21), OpNN(15, 1, 10),
         Halt(4) >>)
SoundProgs ==
  {SoundProg(v) : v \in SoundLoads}
  \cup {Asm(<< OpNN(6, 0, 2), OpNN(15, 0, 24), OpNN(6, 0, 0), OpNN(15, 0, 24),
               Halt(4) >>)}

\* 61VV F129: the address of the glyph of the digit VV.
FontProgs ==
  {Asm(<< OpNN(6, 1, v), OpNN(15, 1, 41), Halt(2) >>) : v \in 0..15}

\* 00E0 D005 00E0: the screen cleared when empty, glyph 0 drawn at (0, 0),
\* and the screen cleared again.
ClearProgs ==
  {Asm(<< OpNNN(0, 224), Op(13, 0, 0, 5), OpNNN(0, 224), Halt(3) >>)}

\* 6002 F015 6F07 0NNN: a family 0 opcode that is neither 00E0 nor 00EE,
\* among them the neighbours of both and those with the same low byte, run
\* while the delay timer counts.
SysAddrs == {0, 223, 225, 237, 239, 480, 750, 4095}
SysProgs ==
  {Asm(<< OpNN(6, 0, 2), OpNN(15, 0, 21), OpNN(6, 15, 7), OpNNN(0, nnn),
          Halt(4) >>) : nnn \in SysAddrs}

\* V0, V1, V2, VF loaded and stored by FX55 at StoreAddr, the registers
\* overwritten, and loaded back by FX65 from the same address.
StoreAddr == org + 256
StoredValues == [i \in RegIdx |-> IF i = 0 THEN 17 ELSE IF i = 1 THEN 34
                                  ELSE IF i = 2 THEN 51
                                  ELSE IF i = 15 THEN 68 ELSE 0]
StoreLoadProg(x) ==
  Asm(<< OpNN(6, 0, 17), OpNN(6, 1, 34), OpNN(6, 2, 51), OpNN(6, 15, 68),
         OpNNN(10, StoreAddr), OpNN(15, x, 85),
         OpNN(6, 0, 85), OpNN(6, 1, 102), OpNN(6, 2, 119), OpNN(6, 15, 136),
         OpNNN(10, StoreAddr), OpNN(15, x, 101), Halt(12) >>)
StoreLoadProgs == {StoreLoadProg(x) : x \in {0, 1, 2, 15}}

\* 61VV A002 F133 6000 F029: the digits of VV written over bytes 2..4 of
\* the font, then the address of glyph 0 taken.
BcdValues == {0, 9, 10, 99, 100, 199, 200, 255}
BcdProgs ==
  {Asm(<< OpNN(6, 1, v), OpNNN(10, 2), OpNN(15, 1, 51), OpNN(6, 0, 0),
          OpNN(15, 0, 41), Halt(5) >>) : v \in BcdValues}

\* 61AA 6207 then 3107, 4107, 5120 or 9120 with V1 equal to 7 or not; and
\* 6002 F015 61KK then E19E or E1A1 on a key that the input side presses, or
\* not, while the delay timer counts.
SkipProgs ==
  {Asm(<< OpNN(6, 1, a), OpNN(6, 2, 7), w, Halt(3), Halt(4) >>) :
     a \in {7, 8},
     w \in {OpNN(3, 1, 7), OpNN(4, 1, 7), Op(5, 1, 2, 0), Op(9, 1, 2, 0)}}
  \cup {Asm(<< OpNN(6, 0, 2), OpNN(15, 0, 21), OpNN(6, 1, k), OpNN(14, 1, nn),
               Halt(4), Halt(5) >>) : k \in {0, 1, 15}, nn \in LegalNN_E}

\* 6F55 6XAA 7XNN: a byte added to VX, X = 1 or F, with and without
\* overflow, VF holding 0x55 before.
AddBytePairs ==
  {<< 1, 2 >>, << 255, 1 >>, << 200, 100 >>, << 255, 255 >>, << 0, 0 >>}
AddByteProgs ==
  {Asm(<< OpNN(6, 15, 85), OpNN(6, x, ab[1]), OpNN(7, x, ab[2]), Halt(3) >>) :
     x \in {1, 15}, ab \in AddBytePairs}

\* 6F55 6XVV ANNN FX1E: VX added to I below, at and across 0x0FFF, X = 0 or
\* F; and 60FF AFFF followed by as many F01E as take I past 0xFFFF.
AddIPairs ==
  {<< 4095, 1 >>, << 4095, 0 >>, << 3840, 255 >>, << 3841, 255 >>,
   << 291, 69 >>}
WrapAdds == ((65536 - mem_size) \div 255) + 1
IndexWrapProg ==
  Asm(<< OpNN(6, 0, 255), OpNNN(10, 4095) >>
      \o [k \in 1..WrapAdds |-> OpNN(15, 0, 30)]
      \o << Halt(WrapAdds + 2) >>)
AddIProgs ==
  {Asm(<< OpNN(6, 15, 85), OpNN(6, x, iv[2]), OpNNN(10, iv[1]),
          OpNN(15, x, 30), Halt(4) >>) : x \in {0, 15}, iv \in AddIPairs}
  \cup {IndexWrapProg}

\* 61VV then E19E or E1A1 with VV past the last key index.
KeyFaultProgs ==
  {Asm(<< OpNN(6, 1, v), OpNN(14, 1, nn), Halt(2), Halt(3) >>) :
     v \in {16, 255}, nn \in LegalNN_E}

Programs ==
  KeyWaitProgs \cup SkipNibbleProgs \cup IllegalProgs \cup CallProgs
  \cup MemEdgeProgs \cup AddProgs \cup ArithProgs
  \cup DrawProgs \cup SoundProgs
  \cup FontProgs \cup ClearProgs \cup SysProgs \cup StoreLoadProgs
  \cup BcdProgs \cup SkipProgs \cup AddByteProgs \cup AddIProgs
  \cup KeyFaultProgs

(***************************************************************************)
(* CHIP8::CHIP8(program): the state after construction.                    *)
(***************************************************************************)
\* The program copied to memory.begin(), over the font, instead of to org.
Load_ProgramAtZero(program) ==
  [a \in 0..(mem_size - 1) |->
     IF a < Len(program) THEN program[a + 1]
     ELSE IF a < Len(font) THEN font[a + 1]
     ELSE 0]

Load(program) ==
  [a \in 0..(mem_size - 1) |->
     IF a < Len(font) THEN font[a + 1]
     ELSE IF a >= org /\ a - org < Len(program) THEN program[(a - org) + 1]
     ELSE 0]

Constructed(program) ==
  /\ PC = org
  /\ SP = 0
  /\ I = 0
  /\ V = [i \in RegIdx |-> 0]
  /\ memory = Load(program)
  /\ stack = [i \in 0..(StackSize - 1) |-> 0]
  /\ DT = 0
  /\ ST = 0
  /\ m_keymap = [i \in 0..(KeymapSize - 1) |-> "Released"]
  /\ m_key_captured = FALSE
  /\ m_pixels = [o \in 0..((width * height) - 1) |-> FALSE]
  /\ m_texture = [o \in 0..((width * height) - 1) |-> FALSE]
  /\ m_sound = "Stopped"
  /\ cerr = << >>
  /\ fault = "none"

Init == \E program \in Programs : Constructed(program)

(***************************************************************************)
(* The event loop of main(): a call of emulate(), or a key event handed to *)
(* key_press / key_release.  After an uncaught exception nothing runs.     *)
(***************************************************************************)
\* std::rand() is called by CXNN only.
RandDraws(s) ==
  IF ~FetchFaults(s) /\ type(Fetch(s)) = 12 THEN RandBytes ELSE {0}

\* A call of emulate() in which the timer clock has (elapsed) or has not
\* passed T_60Hz and std::rand() % 256, if called, yields r.
Emulated(elapsed, r) ==
  LET n == emulate(Machine, elapsed, r)
  IN  /\ PC' = n.PC
      /\ SP' = n.SP
      /\ I' = n.I
      /\ V' = n.V
      /\ memory' = n.memory
      /\ stack' = n.stack
      /\ DT' = n.DT
      /\ ST' = n.ST
      /\ m_keymap' = n.m_keymap
      /\ m_key_captured' = n.m_key_captured
      /\ m_pixels' = n.m_pixels
      /\ m_texture' = n.m_texture
      /\ m_sound' = n.m_sound
      /\ cerr' = n.cerr
      /\ fault' = n.fault

Step ==
  /\ fault = "none"
  /\ \E elapsed \in BOOLEAN, r \in RandDraws(Machine) : Emulated(elapsed, r)

KeyPress ==
  /\ fault = "none"
  /\ \E key \in PhysKeys : m_keymap' = key_press(m_keymap, key)
  /\ UNCHANGED << PC, SP, I, V, memory, stack, DT, ST, m_key_captured,
                  m_pixels, m_texture, m_sound, cerr, fault >>

KeyRelease ==
  /\ fault = "none"
  /\ \E key \in PhysKeys : m_keymap' = key_release(m_keymap, key)
  /\ UNCHANGED << PC, SP, I, V, memory, stack, DT, ST, m_key_captured,
                  m_pixels, m_texture, m_sound, cerr, fault >>

Next == Step \/ KeyPress \/ KeyRelease

Spec == Init /\ [][Next]_vars

(***************************************************************************)
(* Vocabulary of the properties.                                           *)
(***************************************************************************)
Running == fault = "none"
Faulted == fault = "out_of_range"

\* The opcode the next call of emulate() fetches (0 when the fetch throws).
Opcode == IF FetchFaults(Machine) THEN 0 ELSE Fetch(Machine)
Fetches == ~FetchFaults(Machine)

IsKeyWait(opcode) == type(opcode) = 15 /\ NN(opcode) = 10
AtKeyWait == Running /\ Fetches /\ IsKeyWait(Opcode)

AllReleased == \A k \in DOMAIN m_keymap : m_keymap[k] = "Released"
AnyPressed == \E k \in DOMAIN m_keymap : m_keymap[k] = "Pressed"
LowestPressed ==
  CHOOSE k \in DOMAIN m_keymap :
    /\ m_keymap[k] = "Pressed"
    /\ \A j \in 0..(k - 1) : m_keymap[j] = "Released"

\* The timers and the sound either stay or take one 60 Hz update.
TimersStayOrTick ==
  \/ /\ DT' = DT
     /\ ST' = ST
     /\ m_sound' = m_sound
  \/ /\ DT' = IF DT > 0 THEN DT - 1 ELSE 0
     /\ ST' = IF ST > 0 THEN ST - 1 ELSE 0
     /\ m_sound' = IF ST <= 1 THEN "Stopped" ELSE m_sound

\* An uncaught exception ends the run: no step is taken from a faulted state.
FaultIsFatal == fault # "none" => UNCHANGED vars

(***************************************************************************)
(* C1  FX0A stall.  When the instruction at PC is FX0A, no key is pressed  *)
(* and no key capture is pending, a step leaves PC, VX and every other     *)
(* register (V0..VF, I, SP, the stack) unchanged, and memory with them, so *)
(* the same instruction is fetched again by the next step, however often   *)
(* this is repeated.                                                       *)
(***************************************************************************)
C1_Stall ==
  [][ (Step /\ AtKeyWait /\ ~m_key_captured /\ AllReleased)
      => /\ PC' = PC
         /\ V' = V
         /\ I' = I
         /\ SP' = SP
         /\ stack' = stack
         /\ memory' = memory
         /\ m_key_captured' = FALSE
         /\ fault' = "none" ]_vars

\* Two timer updates have gone by in steps that stalled at the FX0A.
C1_Witness ==
  /\ AtKeyWait
  /\ PC = KeyWaitAddr
  /\ ~m_key_captured
  /\ AllReleased
  /\ V[0] = 2
  /\ DT = 0

(***************************************************************************)
(* C2  FX0A capture and release.  What holds of the code: a step of FX0A   *)
(* at address a with no capture pending and some key pressed sets VX to    *)
(* the lowest-indexed pressed key k and leaves PC = a; every later step    *)
(* while k is pressed leaves PC = a and VX = k; the first step that finds  *)
(* k released leaves PC = a + 2; a key event never changes PC, VX or the   *)
(* capture flag, and an event on another key does not change k's state.    *)
(* C2_Original states the claim as written, for any pressed key k.         *)
(***************************************************************************)
\* Hold, release and key events: common to the claim and its amendment.
C2_HoldAndRelease ==
  LET x == VX(Opcode)
  IN  /\ (Step /\ AtKeyWait /\ m_key_captured)
         => /\ V[x] \in DOMAIN m_keymap
            /\ V' = V
            /\ fault' = "none"
            /\ IF m_keymap[V[x]] = "Pressed"
               THEN PC' = PC /\ m_key_captured'
               ELSE PC' = PC + 2 /\ ~m_key_captured'
      /\ (KeyPress \/ KeyRelease)
         => /\ PC' = PC
            /\ V' = V
            /\ m_key_captured' = m_key_captured
            /\ memory' = memory
            /\ \A j, k \in DOMAIN m_keymap :
                 (j # k /\ m_keymap'[j] # m_keymap[j])
                 => m_keymap'[k] = m_keymap[k]

C2_CaptureRelease ==
  [][ /\ (Step /\ AtKeyWait /\ ~m_key_captured /\ AnyPressed)
         => /\ V'[VX(Opcode)] = LowestPressed
            /\ PC' = PC
            /\ m_key_captured'
      /\ C2_HoldAndRelease ]_vars

C2_Original ==
  [][ /\ (Step /\ AtKeyWait /\ ~m_key_captured)
         => \A k \in DOMAIN m_keymap :
              m_keymap[k] = "Pressed"
              => /\ V'[VX(Opcode)] = k
                 /\ PC' = PC
                 /\ m_key_captured'
      /\ C2_HoldAndRelease ]_vars

\* F50A has captured key 1 and resumed after its release; key 0 went down
\* in between and is still down.
C2_Witness ==
  /\ Running
  /\ PC = KeyWaitAddr + 2
  /\ memory[KeyWaitAddr] = 245
  /\ V[5] = 1
  /\ ~m_key_captured
  /\ m_keymap[0] = "Pressed"
  /\ m_keymap[1] = "Released"

(***************************************************************************)
(* C3  FX0A liveness, checked under LiveSpec: the programs that wait for a *)
(* key, with emulate() called again and again (weak fairness of Step).     *)
(* Key k is "held across a step" when, from some state in which the FX0A   *)
(* waits, k stays pressed for as long as it still waits; it is "released"  *)
(* when from some state on it is up.  What holds of the code: if this      *)
(* happens and k is the key the FX0A captured (the lowest-indexed key      *)
(* pressed when it sampled the keypad), the FX0A completes: PC is past it  *)
(* and the flag is clear.  And no step completes it on its own: a step     *)
(* with no key pressed, or with the captured key still pressed, leaves PC  *)
(* at the FX0A.  C3_Original states the claim as written, for any key      *)
(* that is held across a step and then released.                           *)
(***************************************************************************)
LiveInit == \E x \in RegSamples : Constructed(KeyWaitProg(x))

LiveSpec == LiveInit /\ [][Next]_vars /\ WF_vars(Step)

KeyWaitPending == Running /\ PC = KeyWaitAddr /\ ~m_key_captured
KeyWaitDone == Running /\ PC = KeyWaitAddr + 2 /\ ~m_key_captured
KeyWaitReg == VX((memory[KeyWaitAddr] * 256) + memory[KeyWaitAddr + 1])

HeldAcrossStep(k) ==
  <>( /\ KeyWaitPending
      /\ m_keymap[k] = "Pressed"
      /\ [](KeyWaitPending => m_keymap[k] = "Pressed") )

ThenReleased(k) == <>[](m_keymap[k] = "Released")

C3_NoSelfResume ==
  [][ (Step /\ AtKeyWait)
      => /\ (~m_key_captured /\ AllReleased)
            => (PC' = PC /\ ~m_key_captured')
         /\ (m_key_captured /\ V[VX(Opcode)] \in DOMAIN m_keymap
               /\ m_keymap[V[VX(Opcode)]] = "Pressed")
            => (PC' = PC /\ m_key_captured') ]_vars

C3_Liveness ==
  /\ \A k \in 0..(NumKeys - 1) :
       ( /\ HeldAcrossStep(k)
         /\ ThenReleased(k)
         /\ [](m_key_captured => V[KeyWaitReg] = k) )
       => <>KeyWaitDone
  /\ C3_NoSelfResume

C3_Original ==
  /\ \A k \in 0..(NumKeys - 1) :
       (HeldAcrossStep(k) /\ ThenReleased(k)) => <>KeyWaitDone
  /\ C3_NoSelfResume

\* F10A has captured key 1 and completed after its release.
C3_Witness ==
  /\ KeyWaitDone
  /\ memory[KeyWaitAddr] = 241
  /\ V[1] = 1
  /\ AllReleased

(***************************************************************************)
(* C4  5XYN and 9XYN with N # 0 have no handler: the step adds 2 to PC,    *)
(* writes exactly one illegal-opcode report and changes nothing else,      *)
(* whatever VX and VY hold.                                                *)
(***************************************************************************)
IsSkipNibble(opcode) == type(opcode) \in {5, 9} /\ N(opcode) # 0

C4_SkipNibbleIllegal ==
  [][ (Step /\ Running /\ Fetches /\ IsSkipNibble(Opcode))
      => /\ PC' = PC + 2
         /\ cerr' = Append(cerr, << Opcode, PC >>)
         /\ fault' = "none"
         /\ UNCHANGED << SP, I, V, memory, stack, m_keymap, m_key_captured,
                         m_pixels, m_texture >> ]_vars

(***************************************************************************)
(* C5  Illegal opcodes are not fatal.  An opcode of family 8 whose low     *)
(* nibble is not in {0..7, E}, of family E whose low byte is not 9E or A1, *)
(* or of family F whose low byte is none of 07 0A 15 18 1E 29 33 55 65     *)
(* adds exactly one report to std::cerr, holding the opcode and the        *)
(* address it was fetched from, leaves PC at that address + 2 and changes  *)
(* nothing else (the timers may take their 60 Hz update in the same call   *)
(* of emulate()); the step after it executes as usual: a 6XNN that follows *)
(* loads VX and writes no report.                                          *)
(***************************************************************************)
IsIllegal(opcode) ==
  \/ type(opcode) = 8 /\ N(opcode) \notin (0..7) \cup {14}
  \/ type(opcode) = 14 /\ NN(opcode) \notin {158, 161}
  \/ type(opcode) = 15
       /\ NN(opcode) \notin {7, 10, 21, 24, 30, 41, 51, 85, 101}

C5_IllegalNonFatal ==
  [][ /\ (Step /\ Running /\ Fetches /\ IsIllegal(Opcode))
         => /\ cerr' = Append(cerr, << Opcode, PC >>)
            /\ PC' = PC + 2
            /\ fault' = "none"
            /\ TimersStayOrTick
            /\ UNCHANGED << SP, I, V, memory, stack, m_keymap,
                            m_key_captured, m_pixels, m_texture >>
      /\ (Step /\ Running /\ Fetches /\ cerr # << >> /\ type(Opcode) = 6)
         => /\ V' = [V EXCEPT ![VX(Opcode)] = NN(Opcode)]
            /\ PC' = PC + 2
            /\ cerr' = cerr
            /\ fault' = "none" ]_vars

\* F1FF at 0x200 was reported once, and the 602A after it has executed.
C5_Witness ==
  /\ Running
  /\ cerr = << << 61951, org >> >>
  /\ PC = org + 4
  /\ V[0] = 42

(***************************************************************************)
(* C6  Stack overflow.  A 2NNN executed with SP < 16 succeeds and adds 1   *)
(* to SP (so 16 nested calls from an empty stack succeed); a 2NNN executed *)
(* with SP = 16 ends the run with a fault, writes no stack slot and leaves *)
(* SP at 16.                                                               *)
(***************************************************************************)
IsCall(opcode) == type(opcode) = 2
IsRet(opcode) == opcode = 238

C6_StackOverflow ==
  [][ /\ (Step /\ Running /\ Fetches /\ IsCall(Opcode))
         => /\ SP <= StackSize
            /\ SP < StackSize => (fault' = "none" /\ SP' = SP + 1)
            /\ SP = StackSize
                 => (fault' = "out_of_range" /\ stack' = stack /\ SP' = SP)
      /\ FaultIsFatal ]_vars

\* The 17th call of the chain has faulted; the 16 slots hold the 16 return
\* addresses of the calls before it.
C6_Witness ==
  /\ Faulted
  /\ SP = StackSize
  /\ \A i \in 0..(StackSize - 1) : stack[i] = Routine(i) + 2

(***************************************************************************)
(* C7  Stack underflow.  00EE executed with SP = 0 ends the run with a     *)
(* fault: PC is not loaded from a stack slot (it stays at the address      *)
(* after the 00EE), no slot is written, and no step is ever taken with a   *)
(* stack pointer outside 0..16.                                            *)
(***************************************************************************)
C7_StackUnderflow ==
  [][ /\ (Step /\ Running /\ Fetches /\ IsRet(Opcode) /\ SP = 0)
         => /\ fault' = "out_of_range"
            /\ PC' = PC + 2
            /\ stack' = stack
      /\ Step => SP \in 0..StackSize
      /\ FaultIsFatal ]_vars

\* A chain of 16 calls has returned 16 times and the RET after the first
\* call has faulted; slot 15, where a wrapped stack pointer would point,
\* holds a return address that was not taken.
C7_Witness ==
  /\ Faulted
  /\ SP = 255
  /\ PC = org + 4
  /\ stack[StackSize - 1] = Routine(StackSize - 1) + 2

(***************************************************************************)
(* C8  Call/return round trip.  A 2NNN fetched at a with SP = d < 16 sets  *)
(* stack[d] = a + 2, SP = d + 1 and PC = NNN and writes no other slot; a   *)
(* 00EE with SP = d + 1 sets SP = d and PC = stack[d] and writes no slot.  *)
(* In a chain of n <= 16 nested calls followed by n returns, slot i holds  *)
(* the return address of call i while it is active, each return resumes    *)
(* after the call it matches (last in, first out), and the program is back *)
(* after its first call with SP = 0.                                       *)
(***************************************************************************)
ChainLoaded == (memory[org] * 256) + memory[org + 1] = OpNNN(2, Routine(1))

C8_CallReturn ==
  /\ [][ /\ (Step /\ Running /\ Fetches /\ IsCall(Opcode) /\ SP < StackSize)
            => /\ stack' = [stack EXCEPT ![SP] = PC + 2]
               /\ SP' = SP + 1
               /\ PC' = NNN(Opcode)
         /\ (Step /\ Running /\ Fetches /\ IsRet(Opcode)
               /\ SP \in 1..StackSize)
            => /\ SP' = SP - 1
               /\ PC' = stack[SP - 1]
               /\ stack' = stack
         /\ (Step /\ Running /\ Fetches /\ IsRet(Opcode) /\ ChainLoaded
               /\ PC = Routine(SP) + 2 /\ SP \in 1..StackSize)
            => PC' = Routine(SP - 1) + 2 ]_vars
  /\ [](ChainLoaded /\ Running /\ PC = org + 2 => SP = 0)

\* All 16 slots were used and the chain of 16 calls has fully returned.
C8_Witness ==
  /\ ChainLoaded
  /\ Running
  /\ PC = org + 2
  /\ SP = 0
  /\ \A i \in 0..(StackSize - 1) : stack[i] = Routine(i) + 2

(***************************************************************************)
(* C9  Memory faults are fatal.  A step whose fetch touches an address     *)
(* >= 4096 (PC >= 4095), or whose access through I touches one (a row of   *)
(* DXYN, a digit of FX33, a byte of FX55 or FX65), ends the run with a     *)
(* fault; no cell below I is written and no register is loaded for an      *)
(* address >= 4096, so no wrapped address is read or written; and nothing  *)
(* runs after the fault.                                                   *)
(***************************************************************************)
\* The highest address the handler of the opcode accesses through I, -1 when
\* it accesses none.
TopAccess(opcode) ==
  CASE type(opcode) = 13 /\ N(opcode) > 0 -> I + (N(opcode) - 1)
    [] type(opcode) = 15 /\ NN(opcode) = 51 -> I + 2
    [] type(opcode) = 15 /\ NN(opcode) \in {85, 101} -> I + VX(opcode)
    [] OTHER -> -1

C9_MemoryFaultFatal ==
  [][ /\ (Step /\ Running /\ PC >= mem_size - 1)
         => /\ fault' = "out_of_range"
            /\ PC' = PC
            /\ TimersStayOrTick
            /\ UNCHANGED << SP, I, V, memory, stack, m_keymap,
                            m_key_captured, m_pixels, m_texture, cerr >>
      /\ (Step /\ Running /\ Fetches /\ TopAccess(Opcode) >= mem_size)
         => /\ fault' = "out_of_range"
            /\ \A a \in DOMAIN memory : a < I => memory'[a] = memory[a]
            /\ \A i \in RegIdx :
                 (type(Opcode) = 15 /\ NN(Opcode) = 101 /\ I + i >= mem_size)
                 => V'[i] = V[i]
      /\ (Step /\ Running /\ Fetches /\ TopAccess(Opcode) \in 0..(mem_size - 1))
         => fault' = "none"
      /\ FaultIsFatal ]_vars

\* F033 with V0 = 123 and I = 4094 wrote two digits and faulted on the third;
\* address 0, where a wrapped index would land, still holds the font.
C9_Witness ==
  /\ Faulted
  /\ I = mem_size - 2
  /\ memory[mem_size - 2] = 1
  /\ memory[mem_size - 1] = 2
  /\ memory[0] = font[1]

(***************************************************************************)
(* C10  8XY4 carry.  For every X and Y, after the step VF = 1 if the sum   *)
(* of the old VX and VY exceeds 255 and VF = 0 otherwise, and for X # F    *)
(* VX is the sum modulo 256.                                               *)
(***************************************************************************)
IsAddReg(opcode) == type(opcode) = 8 /\ N(opcode) = 4

C10_AddCarry ==
  [][ (Step /\ Running /\ Fetches /\ IsAddReg(Opcode))
      => LET sum == V[VX(Opcode)] + V[VY(Opcode)]
         IN  /\ V'[15] = IF sum > 255 THEN 1 ELSE 0
             /\ VX(Opcode) # 15 => V'[VX(Opcode)] = sum % 256 ]_vars

(***************************************************************************)
(* C11  Subtraction with borrow.  For every X # F and every Y, Y = F       *)
(* included, 8XY5 sets VX = (VX - VY) mod 256 and VF = 1 iff VX >= VY, and *)
(* 8XY7 sets VX = (VY - VX) mod 256 and VF = 1 iff VY >= VX, the operands  *)
(* being the values of the registers before the instruction.               *)
(***************************************************************************)
IsSub(opcode) == type(opcode) = 8 /\ N(opcode) = 5
IsSubN(opcode) == type(opcode) = 8 /\ N(opcode) = 7

C11_SubBorrow ==
  [][ (Step /\ Running /\ Fetches /\ VX(Opcode) # 15)
      => LET vx == V[VX(Opcode)]
             vy == V[VY(Opcode)]
         IN  /\ IsSub(Opcode)
                => /\ V'[VX(Opcode)] = (vx - vy) % 256
                   /\ V'[15] = IF vx >= vy THEN 1 ELSE 0
             /\ IsSubN(Opcode)
                => /\ V'[VX(Opcode)] = (vy - vx) % 256
                   /\ V'[15] = IF vy >= vx THEN 1 ELSE 0 ]_vars

(***************************************************************************)
(* C12  Shifts.  For X # F, 8XY6 sets VX = floor(VX / 2) and VF = the      *)
(* lowest bit VX had, 8XYE sets VX = (2 * VX) mod 256 and VF = the highest *)
(* bit VX had; VX is shifted in place, whatever VY holds, and no register  *)
(* other than VX and VF is written (so VY is not, unless Y is X or F).     *)
(***************************************************************************)
IsShr(opcode) == type(opcode) = 8 /\ N(opcode) = 6
IsShl(opcode) == type(opcode) = 8 /\ N(opcode) = 14

C12_Shifts ==
  [][ (Step /\ Running /\ Fetches /\ VX(Opcode) # 15
         /\ (IsShr(Opcode) \/ IsShl(Opcode)))
      => LET x == VX(Opcode)
         IN  /\ IsShr(Opcode)
                => /\ V'[x] = V[x] \div 2
                   /\ V'[15] = V[x] % 2
             /\ IsShl(Opcode)
                => /\ V'[x] = (2 * V[x]) % 256
                   /\ V'[15] = V[x] \div 128
             /\ \A i \in RegIdx \ {x, 15} : V'[i] = V[i]
             /\ PC' = PC + 2
             /\ fault' = "none" ]_vars

\* 810E has shifted V1 = 0x81 to 0x02 with VF = 1; V0 = 0x03 is untouched.
C12_Witness ==
  /\ Running
  /\ PC = org + 6
  /\ (memory[org + 4] * 256) + memory[org + 5] = Op(8, 1, 0, 14)
  /\ V[1] = 2
  /\ V[15] = 1
  /\ V[0] = 3

(***************************************************************************)
(* C13  Draw is an XOR involution, for X, Y # F.  A DXYN is followed in    *)
(* the program by the same DXYN; the first has been executed and the       *)
(* second is executed on the machine the first has left (I, VX, VY and the *)
(* sprite are unchanged by the first).  What holds of the code: the second *)
(* draw leaves the frame buffer as it was before the first, and it reports *)
(* VF = 1 if and only if the first draw turned at least one pixel on.      *)
(* C13_Original states the claim as written: VF = 1 after the second draw  *)
(* whenever the sprite has a set bit.                                      *)
(***************************************************************************)
IsDraw(opcode) == type(opcode) = 13

\* The instruction after the one about to be fetched is the same opcode.
SameOpcodeNext ==
  /\ PC + 3 < mem_size
  /\ (memory[PC + 2] * 256) + memory[PC + 3] = Opcode

\* Bit c (most significant first) of row r of the sprite at I is set.
SpriteBit(r, c) == (memory[I + r] \div (2 ^ (7 - c))) % 2 = 1
SpriteHasBit ==
  \E r \in 0..(N(Opcode) - 1), c \in 0..7 : I + r < mem_size /\ SpriteBit(r, c)

FirstOfTwoDraws ==
  /\ Step
  /\ Running
  /\ Fetches
  /\ IsDraw(Opcode)
  /\ VX(Opcode) # 15
  /\ VY(Opcode) # 15
  /\ SameOpcodeNext
  /\ fault' = "none"

C13_SecondDrawRestores ==
  LET second == emulate(Machine', FALSE, 0)
  IN  /\ second.fault = "none"
      /\ second.PC = PC + 4
      /\ second.m_pixels = m_pixels

C13_DrawTwice ==
  [][ FirstOfTwoDraws
      => /\ C13_SecondDrawRestores
         /\ emulate(Machine', FALSE, 0).V[15] = 1
            <=> \E o \in DOMAIN m_pixels : ~m_pixels[o] /\ m_pixels'[o] ]_vars

C13_Original ==
  [][ FirstOfTwoDraws
      => /\ C13_SecondDrawRestores
         /\ SpriteHasBit => emulate(Machine', FALSE, 0).V[15] = 1 ]_vars

\* D105 has been executed twice on an empty screen: the screen is empty
\* again and the second draw has reported the collision.
C13_Witness ==
  /\ Running
  /\ PC = DrawAddr + 4
  /\ (memory[DrawAddr] * 256) + memory[DrawAddr + 1] = Op(13, 1, 0, 5)
  /\ V[1] = 253
  /\ V[15] = 1
  /\ \A o \in DOMAIN m_pixels : ~m_pixels[o]

(***************************************************************************)
(* C14  Draw coordinates wrap per pixel on both axes.  For every X and Y,  *)
(* F included, a DXYN that does not fault toggles exactly the pixels       *)
(* ((VX + c) mod 64, (VY + r) mod 32) for which bit c (most significant    *)
(* first) of memory[I + r], r < N, is set, VX and VY being the values of   *)
(* the registers before the instruction; every other pixel is unchanged.   *)
(***************************************************************************)
\* The offsets in m_pixels of the pixels under the set bits of the sprite.
SpritePixels ==
  {((V[VX(Opcode)] + rc[2]) % width)
     + (width * ((V[VY(Opcode)] + rc[1]) % height)) :
     rc \in {p \in (0..(N(Opcode) - 1)) \X (0..7) : SpriteBit(p[1], p[2])}}

C14_DrawWrap ==
  [][ (Step /\ Running /\ Fetches /\ IsDraw(Opcode) /\ fault' = "none")
      => m_pixels' =
           [o \in DOMAIN m_pixels |-> m_pixels[o] # (o \in SpritePixels)] ]_vars

(***************************************************************************)
(* C15  Draw collision flag and frame.  After a DXYN that does not fault,  *)
(* VF = 1 if and only if at least one pixel that was on before the draw is *)
(* off after it, and VF = 0 otherwise, whatever VF held before.  The draw  *)
(* changes nothing but the frame buffer (and the texture that presents     *)
(* it), VF and PC: I, memory, V0..VE, SP, the stack, the keypad and        *)
(* std::cerr are unchanged, and the timers at most take the 60 Hz update   *)
(* of the same call of emulate().                                          *)
(***************************************************************************)
C15_DrawCollision ==
  [][ (Step /\ Running /\ Fetches /\ IsDraw(Opcode) /\ fault' = "none")
      => /\ V'[15] = IF \E o \in DOMAIN m_pixels : m_pixels[o] /\ ~m_pixels'[o]
                     THEN 1 ELSE 0
         /\ \A i \in RegIdx \ {15} : V'[i] = V[i]
         /\ PC' = PC + 2
         /\ m_texture' = m_pixels'
         /\ TimersStayOrTick
         /\ UNCHANGED << SP, I, memory, stack, m_keymap, m_key_captured,
                         cerr >> ]_vars

\* The third D105 has drawn on the screen the second had emptied: VF, left
\* at 1 by the second, is 0 again.
C15_Witness ==
  /\ Running
  /\ PC = DrawAddr + 6
  /\ (memory[DrawAddr] * 256) + memory[DrawAddr + 1] = Op(13, 1, 0, 5)
  /\ V[15] = 0
  /\ \E o \in DOMAIN m_pixels : m_pixels[o]

(***************************************************************************)
(* C16  The stop of the tone is edge-triggered.  A timer update that finds *)
(* ST = 1 leaves ST = 0 and calls m_sound.stop(); once that has happened   *)
(* (the program set ST = 1, ST is 0 and the tone is off), a later timer    *)
(* update with ST still 0 calls m_sound.stop() no more.                    *)
(***************************************************************************)
\* SoundProg(1) has set ST = 1 and a timer update has brought it back to 0.
ToneOver ==
  /\ \A a \in 0..3 : memory[org + a] = Load(SoundProg(1))[org + a]
  /\ PC > org + 2
  /\ ST = 0
  /\ m_sound = "Stopped"

C16_StopEdge ==
  [][ \A elapsed \in BOOLEAN, r \in RandDraws(Machine) :
        (Running /\ Emulated(elapsed, r) /\ elapsed)
        => /\ ST = 1 => /\ m_sound_stop(Machine, elapsed)
                        /\ UpdateTimers(Machine, elapsed).ST = 0
           /\ ToneOver => ~m_sound_stop(Machine, elapsed) ]_vars

(***************************************************************************)
(* C17  ST > 0 implies the tone is on.  In every reachable state with      *)
(* ST > 0 the sound is playing (the last call on it was play(), not        *)
(* stop()).  FX18 with VX # 0 starts it; FX18 with VX = 0 does not start   *)
(* it; the sound goes from playing to stopped only in a call of emulate()  *)
(* whose timer update leaves ST = 0 (it found ST <= 1), and from stopped   *)
(* to playing only by an FX18 with VX # 0.                                 *)
(***************************************************************************)
IsLdST(opcode) == type(opcode) = 15 /\ NN(opcode) = 24

C17_ToneOn ==
  /\ [](ST > 0 => m_sound = "Playing")
  /\ [][ /\ (Step /\ Fetches /\ IsLdST(Opcode) /\ V[VX(Opcode)] # 0)
            => (m_sound' = "Playing" /\ ST' = V[VX(Opcode)])
         /\ (Step /\ Fetches /\ IsLdST(Opcode) /\ V[VX(Opcode)] = 0)
            => (ST' = 0 /\ (m_sound' = "Playing" => m_sound = "Playing"))
         /\ (m_sound = "Playing" /\ m_sound' = "Stopped")
            => (Step /\ ST <= 1)
         /\ (m_sound = "Stopped" /\ m_sound' = "Playing")
            => (Step /\ Fetches /\ IsLdST(Opcode) /\ V[VX(Opcode)] # 0) ]_vars

\* ST was loaded with 2 and has taken one timer update: the tone is on.
C17_Witness ==
  /\ Running
  /\ ST = 1
  /\ V[0] = 2
  /\ m_sound = "Playing"
  /\ PC = org + 6

(***************************************************************************)
(* C18  Timer tick.  A call of emulate() that does not execute FX15 or     *)
(* FX18 decrements DT by 1 if the 60 Hz update is due and DT > 0 and       *)
(* leaves it otherwise, and the same for ST; a timer at 0 stays 0.  A key  *)
(* event changes no timer.  So k updates after a load leave max(0, load -  *)
(* k), and no timer ever exceeds the largest value a program loads.        *)
(***************************************************************************)
IsLdDT(opcode) == type(opcode) = 15 /\ NN(opcode) = 21

C18_TimerTick ==
  /\ [][ /\ \A elapsed \in BOOLEAN, r \in RandDraws(Machine) :
              (Running /\ Emulated(elapsed, r)
                 /\ ~(Fetches /\ (IsLdDT(Opcode) \/ IsLdST(Opcode))))
              => /\ DT' = IF elapsed /\ DT > 0 THEN DT - 1 ELSE DT
                 /\ ST' = IF elapsed /\ ST > 0 THEN ST - 1 ELSE ST
         /\ (KeyPress \/ KeyRelease) => (DT' = DT /\ ST' = ST) ]_vars
  /\ [](DT \in 0..(ByteEdge + 1) /\ ST \in 0..(ByteEdge + 1))

\* Both timers were loaded with 2 and have counted down to 0, where they
\* stay while the program waits for a key.
C18_Witness ==
  /\ Running
  /\ (memory[org + 2] * 256) + memory[org + 3] = OpNN(15, 0, 24)
  /\ V[0] = 2
  /\ PC = org + 6
  /\ DT = 0
  /\ ST = 0
  /\ m_sound = "Stopped"

(***************************************************************************)
(* C19  Timers keep ticking during an FX0A stall.  In every call of        *)
(* emulate() that fetches an FX0A, the 60 Hz update, when due, decrements  *)
(* a non-zero DT and a non-zero ST and calls m_sound.stop() when ST is 0   *)
(* after it.  A stalled step (the FX0A finds no key pressed while it waits *)
(* for a press, or finds the captured key still pressed while it waits for *)
(* the release) leaves PC at the FX0A and changes nothing but the timers   *)
(* and the sound.                                                          *)
(***************************************************************************)
Stalled ==
  /\ AtKeyWait
  /\ \/ ~m_key_captured /\ AllReleased
     \/ /\ m_key_captured
        /\ V[VX(Opcode)] \in DOMAIN m_keymap
        /\ m_keymap[V[VX(Opcode)]] = "Pressed"

C19_StallTicks ==
  [][ \A elapsed \in BOOLEAN, r \in RandDraws(Machine) :
        (AtKeyWait /\ Emulated(elapsed, r))
        => /\ DT' = IF elapsed /\ DT > 0 THEN DT - 1 ELSE DT
           /\ ST' = IF elapsed /\ ST > 0 THEN ST - 1 ELSE ST
           /\ m_sound_stop(Machine, elapsed) <=> (elapsed /\ ST <= 1)
           /\ m_sound' = IF elapsed /\ ST <= 1 THEN "Stopped" ELSE m_sound
           /\ Stalled
              => /\ PC' = PC
                 /\ UNCHANGED << SP, I, V, memory, stack, m_keymap,
                                 m_key_captured, m_pixels, m_texture, cerr,
                                 fault >> ]_vars

\* DT was loaded with 1 before the F10A; no key was pressed since, and DT
\* has counted down to 0 in a step that stalled.
C19_Witness ==
  /\ AtKeyWait
  /\ PC = org + 6
  /\ V[0] = 1
  /\ ~m_key_captured
  /\ AllReleased
  /\ DT = 0
  /\ ST = 0
  /\ m_sound = "Stopped"

(***************************************************************************)
(* C20  Initial state.  In the first state of every behaviour, the state   *)
(* after construction with a program P of at most 3584 bytes, memory[0..79]*)
(* is the font, memory[0x200 + i] = P[i] for every i, every other cell is  *)
(* 0, PC = 0x200, SP = 0, I = 0, DT = ST = 0, V0..VF are 0, every pixel is *)
(* off, all 16 keys are released and no key capture is pending.            *)
(***************************************************************************)
AfterConstruction ==
  /\ \E P \in Programs :
       /\ Len(P) <= mem_size - org
       /\ DOMAIN memory = 0..(mem_size - 1)
       /\ \A a \in 0..79 : memory[a] = font[a + 1]
       /\ \A i \in 0..(Len(P) - 1) : memory[org + i] = P[i + 1]
       /\ \A a \in 80..(org - 1) : memory[a] = 0
       /\ \A a \in (org + Len(P))..(mem_size - 1) : memory[a] = 0
  /\ PC = org
  /\ SP = 0
  /\ I = 0
  /\ DT = 0
  /\ ST = 0
  /\ \A i \in 0..15 : V[i] = 0
  /\ DOMAIN m_pixels = 0..((width * height) - 1)
  /\ \A o \in DOMAIN m_pixels : ~m_pixels[o]
  /\ DOMAIN m_keymap = 0..15
  /\ \A k \in DOMAIN m_keymap : m_keymap[k] = "Released"
  /\ ~m_key_captured

C20_InitialState == AfterConstruction /\ [][TRUE]_vars

\* The machine constructed with 6002 F018 F015 F10A, before its first step.
C20_Witness ==
  /\ PC = org
  /\ \A a \in 0..7 : memory[org + a] = SoundProg(2)[a + 1]
  /\ memory[79] = 128
  /\ memory[80] = 0
  /\ memory[org - 1] = 0
  /\ V[0] = 0
  /\ cerr = << >>
  /\ fault = "none"

(***************************************************************************)
(* C21  Font glyph addressing.  FX29 with VX in 0..15 sets I = 5 * VX, and *)
(* when no byte of the font area has been written since construction the   *)
(* five bytes at I are the built-in glyph of the hexadecimal digit VX.     *)
(***************************************************************************)
IsLdF(opcode) == type(opcode) = 15 /\ NN(opcode) = 41

\* The rows of the glyph of digit d in the built-in table.
Glyph(d) == SubSeq(font, (5 * d) + 1, (5 * d) + 5)

FontIntact == \A a \in 0..(Len(font) - 1) : memory[a] = font[a + 1]

C21_FontGlyph ==
  [][ (Running /\ Fetches /\ IsLdF(Opcode) /\ V[VX(Opcode)] <= 15
         /\ Step)
      => /\ I' = 5 * V[VX(Opcode)]
         /\ FontIntact
            => \A j \in 0..4 : memory'[I' + j] = Glyph(V[VX(Opcode)])[j + 1]
         /\ fault' = "none" ]_vars

\* 610A F129 has set I = 50, where the glyph of A is: F0 90 F0 90 90.
C21_Witness ==
  /\ Running
  /\ PC = org + 4
  /\ (memory[org + 2] * 256) + memory[org + 3] = OpNN(15, 1, 41)
  /\ V[1] = 10
  /\ I = 50
  /\ << memory[50], memory[51], memory[52], memory[53], memory[54] >>
       = << 240, 144, 240, 144, 144 >>

(***************************************************************************)
(* C22  Key state is read-only for the interpreter.  No call of emulate(), *)
(* whatever the opcode, changes the state of any of the 16 keys.  A call   *)
(* of key_press or key_release sets the state of the one logical key the   *)
(* physical key is mapped to, changes no other key and no other part of    *)
(* the machine, and does nothing for a physical key that is not mapped.    *)
(***************************************************************************)
\* The logical keys a physical key is mapped to: one, or none.
MappedTo(key) == {k \in DOMAIN m_keymap : default_keymap[k + 1] = key}

KeySetTo(key, state) ==
  [k \in DOMAIN m_keymap |->
     IF k \in MappedTo(key) THEN state ELSE m_keymap[k]]

\* Every call of emulate() that the state allows returns the key states
\* it was given.
EmulateKeepsKeys ==
  Running
  => \A elapsed \in BOOLEAN, r \in RandDraws(Machine) :
       emulate(Machine, elapsed, r).m_keymap = m_keymap

C22_KeysReadOnly ==
  /\ [](/\ EmulateKeepsKeys
        /\ \A key \in PhysKeys :
             /\ Cardinality(MappedTo(key)) <= 1
             /\ key_press(m_keymap, key) = KeySetTo(key, "Pressed")
             /\ key_release(m_keymap, key) = KeySetTo(key, "Released")
             /\ MappedTo(key) = {}
                => /\ key_press(m_keymap, key) = m_keymap
                   /\ key_release(m_keymap, key) = m_keymap)
  /\ [][ (KeyPress \/ KeyRelease)
         => /\ UNCHANGED << PC, SP, I, V, memory, stack, DT, ST,
                            m_key_captured, m_pixels, m_texture, m_sound,
                            cerr, fault >>
            /\ Cardinality({k \in DOMAIN m_keymap :
                              m_keymap'[k] # m_keymap[k]}) <= 1 ]_vars

\* E19E has skipped on key 1 held down, with key 0 released again.
C22_Witness ==
  /\ Running
  /\ (memory[org + 6] * 256) + memory[org + 7] = OpNN(14, 1, 158)
  /\ PC = org + 10
  /\ m_keymap[1] = "Pressed"
  /\ m_keymap[0] = "Released"
  /\ \A k \in 2..(KeymapSize - 1) : m_keymap[k] = "Released"

(***************************************************************************)
(* C23  The frame the consumer sees.  After a call of emulate() that       *)
(* executed 00E0 or DXYN (and did not throw), the texture that draw()      *)
(* presents equals the frame buffer; after 00E0 every pixel of it is off.  *)
(***************************************************************************)
IsClr(opcode) == opcode = 224

C23_TextureFollows ==
  [][ (Running /\ Fetches /\ (IsClr(Opcode) \/ IsDraw(Opcode))
         /\ Step /\ fault' = "none")
      => /\ m_texture' = m_pixels'
         /\ IsClr(Opcode) => \A o \in DOMAIN m_texture : ~m_texture'[o] ]_vars

(***************************************************************************)
(* C24  Unknown 0NNN is a no-op.  A call of emulate() that fetches 0NNN    *)
(* with NNN other than 0E0 and 0EE advances PC by 2 and changes no         *)
(* register, memory cell, stack slot, SP, pixel or key state, and writes   *)
(* no IllegalOpcode report.  The instruction does not touch the timers:    *)
(* they stay, or take the 60 Hz update that the call performs before the   *)
(* fetch when one is due.                                                  *)
(***************************************************************************)
IsSys(opcode) == type(opcode) = 0 /\ NNN(opcode) \notin {224, 238}

SysLeavesMachine ==
  /\ PC' = PC + 2
  /\ UNCHANGED << SP, I, V, memory, stack, m_keymap, m_key_captured,
                  m_pixels, m_texture, cerr, fault >>

C24_SysNoOp ==
  [][ (Running /\ Fetches /\ IsSys(Opcode) /\ Step)
      => /\ SysLeavesMachine
         /\ TimersStayOrTick ]_vars

\* 00E1 has been passed over while the delay timer went from 2 to 1.
C24_Witness ==
  /\ Running
  /\ PC = org + 8
  /\ (memory[org + 6] * 256) + memory[org + 7] = OpNNN(0, 225)
  /\ V[15] = 7
  /\ DT = 1
  /\ cerr = << >>

(***************************************************************************)
(* C25  FX55 / FX65 with I0 + X <= 4095.  FX55 writes V0..VX to            *)
(* memory[I0 .. I0+X] and changes no other memory cell and no register;    *)
(* FX65 loads V0..VX from memory[I0 .. I0+X] and leaves the registers      *)
(* above VX and the memory unchanged; both leave I = I0 + X + 1.  FX55     *)
(* followed by FX65 from the same I0 restores V0..VX, whatever the         *)
(* registers were set to in between.                                       *)
(***************************************************************************)
IsStore(opcode) == type(opcode) = 15 /\ NN(opcode) = 85
IsLoad(opcode) == type(opcode) = 15 /\ NN(opcode) = 101

\* The FX55 and the FX65 of a program that stores and loads V0..Vx at
\* StoreAddr, and the halt that follows them.
StoreLoadDone(x) ==
  /\ Running
  /\ (memory[org + 10] * 256) + memory[org + 11] = OpNN(15, x, 85)
  /\ (memory[org + 22] * 256) + memory[org + 23] = OpNN(15, x, 101)
  /\ PC = org + 24

C25_StoreLoad ==
  /\ [][ (Running /\ Fetches /\ (IsStore(Opcode) \/ IsLoad(Opcode))
            /\ I + VX(Opcode) <= mem_size - 1 /\ Step)
         => LET x == VX(Opcode)
            IN  /\ fault' = "none"
                /\ I' = I + x + 1
                /\ IsStore(Opcode)
                   => /\ \A i \in 0..x : memory'[I + i] = V[i]
                      /\ \A a \in DOMAIN memory \ (I..(I + x)) :
                           memory'[a] = memory[a]
                      /\ V' = V
                /\ IsLoad(Opcode)
                   => /\ \A i \in 0..x : V'[i] = memory[I + i]
                      /\ \A i \in (x + 1)..(NumRegs - 1) : V'[i] = V[i]
                      /\ memory' = memory ]_vars
  /\ [](\A x \in RegIdx :
          StoreLoadDone(x) => \A i \in 0..x : V[i] = StoredValues[i])

\* F155 then F165: V0 and V1 are back, V2 and VF keep what was loaded into
\* them after the store, and I is two past the address.
C25_Witness ==
  /\ StoreLoadDone(1)
  /\ V[0] = 17
  /\ V[1] = 34
  /\ V[2] = 119
  /\ V[15] = 136
  /\ I = StoreAddr + 2
  /\ memory[StoreAddr] = 17
  /\ memory[StoreAddr + 1] = 34
  /\ memory[StoreAddr + 2] = 0

(***************************************************************************)
(* C26  FX33 with I <= 4093 writes the decimal digits of VX: the hundreds  *)
(* at memory[I], the tens at memory[I+1], the units at memory[I+2], each   *)
(* in 0..9, so that 100 * memory[I] + 10 * memory[I+1] + memory[I+2] = VX. *)
(* I, every register and every other memory cell are unchanged.            *)
(***************************************************************************)
IsBcd(opcode) == type(opcode) = 15 /\ NN(opcode) = 51

\* The three cells at I after the handler has run with v in VX.
BcdOf(v) ==
  LET n == LD_B_Vx([Machine EXCEPT !.V[VX(Opcode)] = v], Opcode)
  IN  << n.memory[I], n.memory[I + 1], n.memory[I + 2] >>

C26_Bcd ==
  /\ [][ (Running /\ Fetches /\ IsBcd(Opcode) /\ I <= mem_size - 3
            /\ Step)
         => /\ fault' = "none"
            /\ \A j \in 0..2 : memory'[I + j] \in 0..9
            /\ (100 * memory'[I]) + (10 * memory'[I + 1]) + memory'[I + 2]
                 = V[VX(Opcode)]
            /\ \A a \in DOMAIN memory \ (I..(I + 2)) :
                 memory'[a] = memory[a]
            /\ I' = I
            /\ V' = V
            /\ PC' = PC + 2 ]_vars
  /\ []((Running /\ Fetches /\ IsBcd(Opcode) /\ I <= mem_size - 3)
         => \A v \in Byte :
              /\ \A j \in 1..3 : BcdOf(v)[j] \in 0..9
              /\ (100 * BcdOf(v)[1]) + (10 * BcdOf(v)[2]) + BcdOf(v)[3] = v)

\* 61C7 A002 F133 has written 1, 9, 9 over bytes 2..4 of the font.
C26_Witness ==
  /\ Running
  /\ (memory[org + 4] * 256) + memory[org + 5] = OpNN(15, 1, 51)
  /\ PC = org + 6
  /\ V[1] = 199
  /\ I = 2
  /\ << memory[1], memory[2], memory[3], memory[4], memory[5] >>
       = << 144, 1, 9, 9, 32 >>

(***************************************************************************)
(* C27  Conditional skips.  3XNN, 4XNN, 5XY0, 9XY0, EX9E and EXA1 (the key *)
(* forms with VX <= 15) fetched at address a leave PC = a + 4 when their   *)
(* condition holds (VX = NN, VX # NN, VX = VY, VX # VY, key VX pressed,    *)
(* key VX not pressed) and PC = a + 2 when it does not, and change no      *)
(* register, memory cell, stack slot, pixel or key state.  The instruction *)
(* does not touch the timers: they stay, or take the 60 Hz update of the   *)
(* call.                                                                   *)
(***************************************************************************)
IsKeySkip(opcode) == type(opcode) = 14 /\ NN(opcode) \in {158, 161}

IsCondSkip(opcode) ==
  \/ type(opcode) \in {3, 4}
  \/ type(opcode) \in {5, 9} /\ N(opcode) = 0
  \/ IsKeySkip(opcode) /\ V[VX(opcode)] <= 15

SkipCondition(opcode) ==
  LET x == V[VX(opcode)]
      y == V[VY(opcode)]
  IN  CASE type(opcode) = 3 -> x = NN(opcode)
        [] type(opcode) = 4 -> x # NN(opcode)
        [] type(opcode) = 5 -> x = y
        [] type(opcode) = 9 -> x # y
        [] NN(opcode) = 158 -> m_keymap[x] = "Pressed"
        [] OTHER -> m_keymap[x] = "Released"

C27_CondSkips ==
  [][ (Running /\ Fetches /\ IsCondSkip(Opcode) /\ Step)
      => /\ PC' = IF SkipCondition(Opcode) THEN PC + 4 ELSE PC + 2
         /\ UNCHANGED << SP, I, V, memory, stack, m_keymap, m_key_captured,
                         m_pixels, m_texture, cerr, fault >>
         /\ TimersStayOrTick ]_vars

\* E1A1 with V1 = 0 has not skipped, key 0 being held down, while the delay
\* timer went from 2 to 1.
C27_Witness ==
  /\ Running
  /\ (memory[org + 6] * 256) + memory[org + 7] = OpNN(14, 1, 161)
  /\ PC = org + 8
  /\ V[1] = 0
  /\ m_keymap[0] = "Pressed"
  /\ DT = 1

(***************************************************************************)
(* C28  7XNN sets VX = (VX + NN) mod 256 and leaves every other register   *)
(* unchanged: for X # F that includes VF, which keeps its value when the   *)
(* addition overflows.                                                     *)
(***************************************************************************)
IsAddByte(opcode) == type(opcode) = 7

C28_AddByte ==
  [][ (Running /\ Fetches /\ IsAddByte(Opcode) /\ Step)
      => LET x == VX(Opcode)
         IN  /\ V'[x] = (V[x] + NN(Opcode)) % 256
             /\ \A i \in RegIdx \ {x} : V'[i] = V[i]
             /\ x # 15 => V'[15] = V[15]
             /\ I' = I
             /\ PC' = PC + 2
             /\ fault' = "none" ]_vars

\* 6F55 61C8 7164: 200 + 100 has wrapped to 44 and VF is still 0x55.
C28_Witness ==
  /\ Running
  /\ (memory[org + 4] * 256) + memory[org + 5] = OpNN(7, 1, 100)
  /\ PC = org + 6
  /\ V[1] = 44
  /\ V[15] = 85

(***************************************************************************)
(* C29  FX1E adds VX to I and always overwrites VF.  I is a 16-bit         *)
(* quantity that is not masked to 12 bits: the new I is I + VX, also past  *)
(* 0x0FFF, reduced modulo 65536 when the sum passes 0xFFFF.  VF becomes 1  *)
(* if the new I exceeds 0x0FFF and 0 otherwise, whatever it held before;   *)
(* no other register changes.  C29_Original states the claim as written:   *)
(* the new I is I + VX in every case.                                      *)
(***************************************************************************)
IsAddI(opcode) == type(opcode) = 15 /\ NN(opcode) = 30

AddIFlag ==
  /\ V'[15] = IF I' > mem_size - 1 THEN 1 ELSE 0
  /\ \A i \in RegIdx \ {15} : V'[i] = V[i]
  /\ PC' = PC + 2
  /\ fault' = "none"

CallStep == Running /\ Fetches /\ IsCall(Opcode) /\ Step
RetStep == Running /\ Fetches /\ IsRet(Opcode) /\ Step

C30_StackPointer ==
  /\ SP = 0
  /\ [](Running => SP \in 0..StackSize)
  /\ [][ /\ (CallStep /\ fault' = "none")
            => /\ SP' = SP + 1
               /\ stack' = [stack EXCEPT ![SP] = PC + 2]
         /\ (RetStep /\ fault' = "none")
            => /\ SP' = SP - 1
               /\ stack' = stack
         /\ ~(CallStep \/ RetStep) => UNCHANGED << SP, stack >> ]_vars

\* Sixteen nested calls and one return: SP = 15, back in routine 15.
C30_Witness ==
  /\ ChainLoaded
  /\ Running
  /\ SP = StackSize - 1
  /\ PC = Routine(StackSize - 1) + 2
  /\ stack[StackSize - 1] = Routine(StackSize - 1) + 2
  /\ stack[0] = org + 2

(***************************************************************************)
(* C31  Key-capture invariant.  Whenever m_key_captured is set between two *)
(* calls of emulate(), PC is the address of an FX0A whose VX holds a key   *)
(* index in 0..15: the flag is set only by a call that executes FX0A and   *)
(* leaves PC at it.  While the flag is set every call executes that FX0A   *)
(* and nothing else: it changes no register, no memory cell, no stack slot *)
(* and no pixel, and leaves PC where it is as long as the flag stays set.  *)
(* The flag is cleared only by a call of emulate() that finds key VX       *)
(* released, never by a key event.                                         *)
(***************************************************************************)
CapturePending ==
  m_key_captured
  => /\ Running
     /\ Fetches
     /\ IsKeyWait(Opcode)
     /\ V[VX(Opcode)] \in 0..(KeymapSize - 1)

C31_KeyCapture ==
  /\ [] CapturePending
  /\ [][ /\ (~m_key_captured /\ m_key_captured')
            => /\ IsKeyWait(Opcode)
               /\ PC' = PC
               /\ Step
         /\ (m_key_captured /\ m_key_captured')
            => /\ PC' = PC
               /\ UNCHANGED << SP, I, V, memory, stack, m_pixels, m_texture,
                               cerr, fault >>
         /\ (m_key_captured /\ ~m_key_captured')
            => /\ m_keymap[V[VX(Opcode)]] = "Released"
               /\ m_keymap' = m_keymap
               /\ PC' = PC + 2
               /\ UNCHANGED << SP, I, V, memory, stack, m_pixels, m_texture,
                               cerr, fault >>
               /\ Step ]_vars

\* FF0A has captured key 1 in VF; the key has been released, the delay
\* timer has run out, and the call that will find the key released is due.
C31_Witness ==
  /\ m_key_captured
  /\ PC = KeyWaitAddr
  /\ (memory[PC] * 256) + memory[PC + 1] = OpNN(15, 15, 10)
  /\ V[15] = 1
  /\ AllReleased
  /\ DT = 0

(***************************************************************************)
(* C32  EX9E and EXA1 bounds-check the key index.  With VX > 15 the call   *)
(* of emulate() ends in an out_of_range exception thrown by m_keymap.at(), *)
(* with PC already advanced by 2 and nothing else changed; the key is not  *)
(* treated as not pressed, and the index is not masked.  The exception is  *)
(* fatal, and it is thrown with PC, I and SP all inside their ranges: the  *)
(* fatal conditions are not limited to memory and stack accesses.          *)
(***************************************************************************)
KeyIndexFault ==
  /\ fault' = "out_of_range"
  /\ PC' = PC + 2
  /\ UNCHANGED << SP, I, V, memory, stack, m_keymap, m_key_captured,
                  m_pixels, m_texture, cerr >>

C32_KeyIndexChecked ==
  [][ /\ (Running /\ Fetches /\ IsKeySkip(Opcode) /\ V[VX(Opcode)] > 15
            /\ Step)
         => /\ KeyIndexFault
            /\ PC + 2 < mem_size
            /\ I < mem_size
            /\ SP < StackSize
      /\ FaultIsFatal ]_vars

\* 6110 E1A1: SKNP on key index 16 has thrown instead of skipping.
C32_Witness ==
  /\ Faulted
  /\ (memory[org + 2] * 256) + memory[org + 3] = OpNN(14, 1, 161)
  /\ PC = org + 4
  /\ V[1] = 16
  /\ SP = 0
  /\ I = 0

(***************************************************************************)
(* C33  The font bytes.  The constructor writes the font to memory[0..79]  *)
(* once and emulate() never writes it again, but the cells are ordinary    *)
(* memory.  What holds of the code: memory is written by FX33 and FX55     *)
(* only, FX33 writes cells I..I+2 and FX55 cells I..I+X, so the font area  *)
(* equals the built-in table after construction and after every call of    *)
(* emulate() that found it so, unless the call executed FX33 with I < 80   *)
(* or FX55 with I < 80.  C33_Original states the claim as written: the     *)
(* font area equals the table in every reachable state.                    *)
(***************************************************************************)
FontArea == 0..(Len(font) - 1)

\* The cells that the instruction about to be executed may write.
WrittenCells ==
  IF ~(Running /\ Fetches) THEN {}
  ELSE IF IsBcd(Opcode) THEN I..(I + 2)
  ELSE IF IsStore(Opcode) THEN I..(I + VX(Opcode))
  ELSE {}

C33_FontWrites ==
  /\ FontIntact
  /\ [][ memory' # memory
         => /\ WrittenCells # {}
            /\ \A a \in DOMAIN memory \ WrittenCells : memory'[a] = memory[a]
            /\ (FontIntact /\ I \notin FontArea) => FontIntact' ]_vars

C33_Original == FontIntact

\* 61FF A002 F133 has written the digits 2, 5, 5 over rows 3..5 of glyph 0.
C33_Witness ==
  /\ Running
  /\ ~FontIntact
  /\ \A a \in FontArea \ {2, 3, 4} : memory[a] = font[a + 1]
  /\ << memory[2], memory[3], memory[4] >> = << 2, 5, 5 >>
  /\ << font[3], font[4], font[5] >> = << 144, 144, 240 >>

(***************************************************************************)
(* C34  FX0A key selection.  The call of emulate() that executes FX0A with *)
(* no capture pending samples the keypad as it is at that call: when one   *)
(* or several keys are pressed, VX is set to the lowest-indexed pressed    *)
(* key; when none is, nothing is captured.  A key is captured only by such *)
(* a call and only if it is pressed at it, so a key pressed and released   *)
(* again between two consecutive calls, which is released at both, is      *)
(* never captured.                                                         *)
(***************************************************************************)
Captures == ~m_key_captured /\ m_key_captured'

PressedKeys == {k \in DOMAIN m_keymap : m_keymap[k] = "Pressed"}

C34_KeySelection ==
  [][ /\ (Running /\ Fetches /\ IsKeyWait(Opcode) /\ ~m_key_captured /\ Step)
         => IF PressedKeys = {}
            THEN ~m_key_captured' /\ V' = V
            ELSE /\ m_key_captured'
                 /\ V'[VX(Opcode)] \in PressedKeys
                 /\ \A k \in PressedKeys : V'[VX(Opcode)] <= k
                 /\ \A i \in RegIdx \ {VX(Opcode)} : V'[i] = V[i]
      /\ Captures
         => /\ Step
            /\ \A k \in DOMAIN m_keymap :
                 m_keymap[k] = "Released" => V'[VX(Opcode)] # k
      /\ (KeyPress \/ KeyRelease)
         => /\ m_key_captured' = m_key_captured
            /\ V' = V ]_vars

\* F30A has captured key 0 in V3 with keys 0 and 1 both held down.
C34_Witness ==
  /\ m_key_captured
  /\ PC = KeyWaitAddr
  /\ (memory[PC] * 256) + memory[PC + 1] = OpNN(15, 3, 10)
  /\ V[3] = 0
  /\ PressedKeys = {0, 1}

====
